---- MODULE Spec2Model ----
(***************************************************************************)
(* Dmon - Docker containers monitor.                                       *)
(*                                                                         *)
(* The server side of the metrics pipeline: the delta CPU estimator        *)
(* (calculateCpuPercent), the per-container sampler (getContainerStats,    *)
(* getDockerStats), the snapshot cache (getDockerStatsCached) and the SSE  *)
(* route /stream, as one Node.js event loop.  An action is one macrotask   *)
(* of that loop (a route handler, a timer callback, an I/O completion)     *)
(* together with the microtasks it releases.                               *)
(*                                                                         *)
(* Numbers: a CPU percentage is a JavaScript double; it is modelled as the *)
(* exact rational [n, d] in lowest terms (d > 0).  Times are milliseconds. *)
(***************************************************************************)
EXTENDS Integers, Sequences, FiniteSets, TLC

\* ------------------------------------------------------------------ bounds
MaxConns == 2      \* client connections that may ever be opened
MaxIds == 2        \* container ids the platform may list
MaxTicks == 2      \* the clock stops after MaxTicks steps of Tick ms
MaxCalls == 2      \* sendData activations in flight at the same time
NSamples == 2      \* distinct raw usage samples a stats fetch may return
MaxLoad == 3       \* a run has conns + ids <= MaxLoad
MaxRenders == 61   \* snapshots rendered by the page when the feed is a ramp
MaxProbes == 3     \* snapshots rendered by the page when the feed is raw
MaxErrors == 8     \* error events of the stream between two messages
MaxTimers == 2     \* timer ids the page may hold at the same time
MaxHostCalls == 2  \* calls of getHostStats in a run of the host sampler

\* --------------------------------------------------------- program constants
CACHE_TTL == 2000        \* `now - lastStatsTime < 2000`
PUSH_INTERVAL_V1 == 1000 \* `setInterval(sendData, 1000)`, server 1.0.0
PUSH_INTERVAL == 2000    \* `setInterval(sendData, 2000)`, server 1.2.0
MIB == 1048576           \* `/ 1024 / 1024`
MAX_DATA_POINTS == 60    \* core.js `const MAX_DATA_POINTS = 60`
SEED_POINTS == 10        \* charts.js `for (let i = 0; i < 10; i++)`
SSE_DELAY_MIN == 1000    \* core.js `sseReconnectDelay = 1000`
SSE_DELAY_MAX == 30000   \* core.js `Math.min(30000, sseReconnectDelay * 2)`
NoReconnect == 0         \* core.js `sseReconnectTimer = null`
HOST_TOTALMEM == 4 * MIB \* os.totalmem() of the modelled host

Tick == CACHE_TTL \div 2
MaxTime == MaxTicks * Tick

Conns == 1..MaxConns
Ids == 1..MaxIds

\* The two servers of the repository: `const VERSION = '1.0.0'` (one file)
\* and `const VERSION = '1.2.0'` (server.js with container.js).  Their
\* sampler, cache and /stream route differ in the interval only.
Releases == {"1.0.0", "1.2.0"}

\* JavaScript values that are not numbers.  A counter is a natural number or
\* Undefined (the field is missing); a difference is a number or NaN.
Undefined == -1
NaN == [nan |-> TRUE]
Num(v) == [nan |-> FALSE, v |-> v]

\* ---------------------------------------------------------------- rationals
RECURSIVE Gcd(_, _)
Gcd(a, b) == IF b = 0 THEN a ELSE Gcd(b, a % b)

Abs(x) == IF x < 0 THEN -x ELSE x

\* n/d in lowest terms, for d > 0
Ratio(n, d) == LET g == Gcd(Abs(n), d) IN [n |-> n \div g, d |-> d \div g]

Int2R(k) == [n |-> k, d |-> 1]
RZero == Int2R(0)
RLess(p, q) == p.n * q.d < q.n * p.d
RMin(p, q) == IF RLess(q, p) THEN q ELSE p
RMax(p, q) == IF RLess(p, q) THEN q ELSE p

\* ------------------------------------------------------ JavaScript arithmetic
\* `x || 0`
OrZero(x) == IF x = Undefined THEN 0 ELSE x

\* `a - b` for a a number or undefined, b a number
JsSub(a, b) == IF a = Undefined THEN NaN ELSE Num(a - b)

\* `x > 0`: every comparison with NaN is false
JsGt0(x) == ~x.nan /\ x.v > 0

\* ------------------------------------------------------- raw usage samples
\* container.stats({stream:false}): cpu_stats (may be missing), its
\* cpu_usage.total_usage and system_cpu_usage (each may be missing), and
\* memory_stats.usage / .limit in bytes (0: missing).
NoSample == [absent |-> TRUE]

MkSample(hc, tot, sys, use, lim) ==
  [has_cpu |-> hc, total |-> tot, system |-> sys, usage |-> use, limit |-> lim]

\* A thrown TypeError, where a number was expected
Thrown == [thrown |-> TRUE]

\* --------------------------------------------------- calculateCpuPercent
\* Returns a rational, or Thrown when the previous sample has no cpu_stats
\* (`prev.cpu_stats.cpu_usage` throws a TypeError).
calculateCpuPercent_noPrevCheck(stats, prev) ==
  IF ~stats.has_cpu THEN RZero
  ELSE LET p == IF prev = NoSample
                  THEN MkSample(TRUE, Undefined, Undefined, 0, 0) ELSE prev
           cpuDelta == JsSub(stats.total, OrZero(p.total))
           sysDelta == JsSub(stats.system, OrZero(p.system))
           percent == IF JsGt0(sysDelta) /\ JsGt0(cpuDelta)
                        THEN Ratio(cpuDelta.v * 100, sysDelta.v) ELSE RZero
           p1 == IF RLess(percent, RZero) THEN RZero ELSE percent
           p2 == IF RLess(Int2R(100), p1) THEN Int2R(100) ELSE p1
       IN  IF ~p.has_cpu THEN Thrown ELSE p2

calculateCpuPercent_noUpperClamp(stats, prev) ==
  IF prev = NoSample \/ ~stats.has_cpu THEN RZero
  ELSE IF ~prev.has_cpu THEN Thrown
  ELSE LET cpuDelta == JsSub(stats.total, OrZero(prev.total))
           sysDelta == JsSub(stats.system, OrZero(prev.system))
           percent == IF JsGt0(sysDelta) /\ JsGt0(cpuDelta)
                        THEN Ratio(cpuDelta.v * 100, sysDelta.v) ELSE RZero
       IN  IF RLess(percent, RZero) THEN RZero ELSE percent

calculateCpuPercent(stats, prev) ==
  IF prev = NoSample \/ ~stats.has_cpu THEN RZero
  ELSE IF ~prev.has_cpu THEN Thrown
  ELSE LET cpuDelta == JsSub(stats.total, OrZero(prev.total))
           sysDelta == JsSub(stats.system, OrZero(prev.system))
           percent == IF JsGt0(sysDelta) /\ JsGt0(cpuDelta)
                        THEN Ratio(cpuDelta.v * 100, sysDelta.v) ELSE RZero
           p1 == IF RLess(percent, RZero) THEN RZero ELSE percent
           p2 == IF RLess(Int2R(100), p1) THEN Int2R(100) ELSE p1
       IN  p2

\* Math.round(bytes / 1024 / 1024) for bytes >= 0
MiBRound(bytes) == (2 * bytes + MIB) \div (2 * MIB)

\* The samples the platform may return for a running container.  The first
\* two are the reference pair (total 1000 -> 1500, system 10000 -> 15000).
SampleOf(k) ==
  IF k = 1 THEN MkSample(TRUE, 1000, 10000, 3 * (MIB \div 2), 0)
  ELSE IF k = 2 THEN MkSample(TRUE, 1500, 15000, 5 * (MIB \div 2), 3 * MIB)
  ELSE MkSample(TRUE, 9000 + k, 16000, 0, 0)

\* ------------------------------------------------------------------- state
VARIABLES
  now,            \* Date.now()
  cpuStats,       \* container.js `cpuStats`: id -> retained sample
  lastStats,      \* container.js `lastStats`
  lastStatsTime,  \* container.js `lastStatsTime`
  conn,           \* the /stream connections: state, timer, what was written
  calls,          \* the sendData activations in flight
  nextSeq,        \* number of sendData activations started so far
  listCalls,      \* number of docker.listContainers requests issued so far
  hostCalls,      \* number of getHostStats calls made so far
  purged,         \* id -> no sample was stored for id since the last purge
  stale,          \* id -> the retained sample of id was requested before a
                  \*       pass found id stopped
  order,          \* the order of the stats requests, in the runs that record
                  \* it: [next, held], held[id] the number of the request
                  \* that the retained sample of id answers (0: none)
  est,            \* harness of the estimator, and of the host sampler:
                  \* its inputs and its result
  load,           \* the run, fixed at the start: [conns, ids, release]
  historyData,    \* core.js `historyData`: key -> {cpu: [], ram: []}
  appended,       \* key -> every value pushed to the series of key, in order
  charts,         \* core.js `charts`: the chart ids that have an instance
  cards,          \* the container ids that have a card in the page
  echartsReady,   \* core.js `echartsReady`
  isFirstRender,  \* core.js `isFirstRender`
  lastRenderedData, \* core.js `lastRenderedData`
  feed,           \* the snapshots the page is given: [mode, stage, left]
  eventSource,    \* core.js `eventSource`: "none" (null) or its readyState
  sseReconnectDelay, \* core.js `sseReconnectDelay`
  sseReconnectTimer, \* core.js `sseReconnectTimer`: a timer id, or NoReconnect
  timers,         \* the timeouts of the page that are pending: [id, delay]
  hidden,         \* `document.hidden`
  visibleWaiting, \* lifecycle.js `_visiblePromiseResolve` is set
  focusListener,  \* _onVisible is registered for the next 'focus'
  sseDelays,      \* the delays given to setTimeout since the last message
  sseErrors,      \* number of error events since the last message
  sourceId,       \* which EventSource object `eventSource` is: a new one
                  \* is not the one before it
  openSources,    \* number of EventSource objects of the page that are
                  \* not closed
  signal,         \* the last event the page has handled: [name, odd]
  stored,         \* localStorage: what the key 'dmon:lastSSE' holds
  delivered,      \* number of messages the stream has delivered to the page
  rendered,       \* the calls of renderAllData: [n, cache], n the number of
                  \* the message rendered (0: the one restored from storage)
  saved           \* the snapshot of the last message whose text the storage
                  \* took, in the runs that load the page more than once

chartVars == <<historyData, appended, charts, cards, echartsReady,
               isFirstRender, lastRenderedData, feed>>

sseVars == <<eventSource, sseReconnectDelay, sseReconnectTimer, timers,
             hidden, visibleWaiting, focusListener, sseDelays, sseErrors,
             sourceId, openSources, signal>>

logVars == <<stored, delivered, rendered, saved>>

clientVars == <<chartVars, sseVars, logVars>>

vars == <<now, cpuStats, lastStats, lastStatsTime, conn, calls, nextSeq,
          listCalls, hostCalls, purged, stale, order, est, load, clientVars>>

serverVars == <<now, cpuStats, lastStats, lastStatsTime, conn, calls, nextSeq,
                listCalls, hostCalls, purged, stale, order>>

\* `null`
NoStats == [absent |-> TRUE]
NoTimer == -1

\* what a mapper of getDockerStats holds for one entity: {cpu, ramUsage,
\* ramLimit}, with where it came from (src: "stopped", "failed", "ok"; k: the
\* sample returned; fp: the first sample of the entity since the last purge)
ZeroStats(src) ==
  [cpu |-> RZero, ramUsage |-> 0, ramLimit |-> 0, src |-> src, k |-> 0,
   fp |-> FALSE]

Pending == ZeroStats("pending")

InitConn ==
  [state |-> "idle", openedAt |-> 0, timerDue |-> NoTimer, started |-> 0,
   sent |-> 0, errs |-> 0, late |-> 0, first |-> NoStats, afterClose |-> FALSE]

\* the order of the requests is not recorded
NoOrder == [off |-> TRUE]

InitSampler ==
  /\ now = 0
  /\ cpuStats = [i \in Ids |-> NoSample]
  /\ lastStats = NoStats
  /\ lastStatsTime = 0
  /\ conn = [c \in Conns |-> InitConn]
  /\ calls = {}
  /\ nextSeq = 0
  /\ listCalls = 0
  /\ hostCalls = 0
  /\ purged = [i \in Ids |-> FALSE]
  /\ stale = [i \in Ids |-> FALSE]

InitServer ==
  /\ InitSampler
  /\ order = NoOrder

NoEst == [pending |-> TRUE]

\* a run has load.conns clients and load.ids containers, and runs the
\* server of load.release; the runs of server 1.0.0, whose timers fire twice
\* as often, are one smaller
Loads ==
  {l \in [conns : 1..MaxConns, ids : 1..MaxIds, release : Releases] :
     l.conns + l.ids <= (IF l.release = "1.0.0" THEN MaxLoad - 1 ELSE MaxLoad)}

\* the second argument of setInterval in the /stream route
PushInterval ==
  IF load.release = "1.0.0" THEN PUSH_INTERVAL_V1 ELSE PUSH_INTERVAL

\* the page at rest, for the runs that are about the server only
\* the page before lifecycle.js has run: no stream, no reconnect scheduled
IdleStream ==
  /\ eventSource = "none"
  /\ sseReconnectDelay = SSE_DELAY_MIN
  /\ sseReconnectTimer = NoReconnect
  /\ timers = {}
  /\ hidden = FALSE
  /\ visibleWaiting = FALSE
  /\ focusListener = FALSE
  /\ sseDelays = <<>>
  /\ sseErrors = 0
  /\ sourceId = 0
  /\ openSources = 0
  /\ signal = [name |-> "none", odd |-> FALSE]
  /\ delivered = 0
  /\ rendered = <<>>
  /\ saved = [none |-> TRUE]

IdlePage ==
  /\ historyData = [key \in {0} \cup Ids |-> [absent |-> TRUE]]
  /\ appended = [key \in {0} \cup Ids |-> [absent |-> TRUE]]
  /\ charts = {}
  /\ cards = {}
  /\ echartsReady = FALSE
  /\ isFirstRender = TRUE
  /\ lastRenderedData = [none |-> TRUE]
  /\ feed = [mode |-> "off", stage |-> "off", left |-> 0]
  /\ IdleStream
  /\ stored = [missing |-> TRUE]

Init ==
  /\ InitServer
  /\ IdlePage
  /\ load \in Loads
  /\ est = [stats |-> SampleOf(1), prev |-> NoSample, out |-> NoEst]

\* --------------------------------------------------- getDockerStatsCached
\* `lastStats && now - lastStatsTime < 2000`, evaluated when the call starts
CacheHit_inclusive == lastStats # NoStats /\ now - lastStatsTime <= CACHE_TTL

CacheHit == lastStats # NoStats /\ now - lastStatsTime < CACHE_TTL

\* the two assignments after `await getDockerStats()`: the timestamp is the
\* `now` read when the call started
StoreStats_completionTime(k, snap) ==
  /\ lastStats' = snap
  /\ lastStatsTime' = now

StoreStats(k, snap) ==
  /\ lastStats' = snap
  /\ lastStatsTime' = k.t0

\* --------------------------------------------------------------- sendData
\* The synchronous start of sendData on connection c: getDockerStatsCached
\* either returns the stored snapshot or issues docker.listContainers, and
\* getHostStats is started.  The activation then waits.
NewCall(c) ==
  [seq |-> nextSeq + 1, conn |-> c, t0 |-> now,
   pc |-> IF CacheHit THEN "ready" ELSE "list",
   listing |-> <<>>, pending |-> {}, old |-> {}, res |-> <<>>, req |-> 0,
   snap |-> IF CacheHit THEN lastStats ELSE NoStats]

sendData(c) ==
  /\ calls' = calls \cup {NewCall(c)}
  /\ nextSeq' = nextSeq + 1
  /\ listCalls' = IF CacheHit THEN listCalls ELSE listCalls + 1
  /\ hostCalls' = hostCalls + 1

\* what is remembered of the first snapshot written to a connection: whether
\* every entity in it has cpu = 0, whether the push itself took the first
\* sample of some entity since the last purge, and whether every such entity
\* has cpu = 0
FirstOf(k) ==
  [allZero |-> \A i \in DOMAIN k.snap.ents : k.snap.ents[i].cpu = RZero,
   hasFresh |-> \E i \in DOMAIN k.res : k.res[i].fp,
   freshZero |-> \A i \in DOMAIN k.res : k.res[i].fp => k.res[i].cpu = RZero]

\* `res.write(...)` of kind "data" or "error" on connection c by activation
\* k; a write after `res.end()` reaches no client and is counted apart
Written_endOnError(c, kind, k) ==
  IF conn[c].state # "open"
    THEN [conn EXCEPT ![c].late = @ + 1]
  ELSE IF kind = "error"
    THEN [conn EXCEPT ![c].errs = @ + 1, ![c].state = "closed",
                      ![c].timerDue = NoTimer]
  ELSE [conn EXCEPT ![c].sent = @ + 1,
                    ![c].first = IF @ = NoStats THEN FirstOf(k) ELSE @]

Written(c, kind, k) ==
  IF conn[c].state # "open"
    THEN [conn EXCEPT ![c].late = @ + 1]
  ELSE IF kind = "error"
    THEN [conn EXCEPT ![c].errs = @ + 1]
  ELSE [conn EXCEPT ![c].sent = @ + 1,
                    ![c].first = IF @ = NoStats THEN FirstOf(k) ELSE @]

\* ------------------------------------------------------ app.get('/stream')
\* A client connects: the handler sends at once and arms the interval timer.
OpenEffect(c) ==
  /\ conn' = [conn EXCEPT ![c] =
       [@ EXCEPT !.state = "open", !.openedAt = now,
                 !.timerDue = now + PushInterval, !.started = 1,
                 !.afterClose = \E d \in Conns : conn[d].state = "closed"]]
  /\ sendData(c)

Connect(c) ==
  /\ conn[c].state = "idle"
  /\ c <= load.conns
  /\ \A d \in Conns : d < c => conn[d].state # "idle"
  /\ Cardinality(calls) < MaxCalls
  /\ OpenEffect(c)
  /\ UNCHANGED <<now, cpuStats, lastStats, lastStatsTime, purged, stale, order, est,
                 load, clientVars>>

\* The interval timer of connection c fires.
TimerFire(c) ==
  /\ conn[c].state = "open"
  /\ conn[c].timerDue = now
  /\ Cardinality(calls) < MaxCalls
  /\ conn' = [conn EXCEPT ![c].timerDue = @ + PushInterval,
                          ![c].started = @ + 1]
  /\ sendData(c)
  /\ UNCHANGED <<now, cpuStats, lastStats, lastStatsTime, purged, stale, order, est,
                 load, clientVars>>

\* req.on('close'): clearInterval, purge of every retained sample, res.end()
CloseEffect_keepSamples(c) ==
  /\ conn' = [conn EXCEPT ![c].state = "closed", ![c].timerDue = NoTimer]
  /\ UNCHANGED <<cpuStats, lastStats, lastStatsTime>>

CloseEffect_resetCache(c) ==
  /\ conn' = [conn EXCEPT ![c].state = "closed", ![c].timerDue = NoTimer]
  /\ cpuStats' = [i \in Ids |-> NoSample]
  /\ lastStats' = NoStats
  /\ lastStatsTime' = 0

CloseEffect_keepTimer(c) ==
  /\ conn' = [conn EXCEPT ![c].state = "closed"]
  /\ cpuStats' = [i \in Ids |-> NoSample]
  /\ UNCHANGED <<lastStats, lastStatsTime>>

CloseEffect(c) ==
  /\ conn' = [conn EXCEPT ![c].state = "closed", ![c].timerDue = NoTimer]
  /\ cpuStats' = [i \in Ids |-> NoSample]
  /\ UNCHANGED <<lastStats, lastStatsTime>>

\* the retained samples of the ids S are deleted
Forget(S) ==
  IF order = NoOrder THEN order
  ELSE [order EXCEPT !.held = [i \in Ids |-> IF i \in S THEN 0 ELSE @[i]]]

\* the requests of a pass are issued: they are given the next number
Issue(S) ==
  IF order = NoOrder \/ S = {} THEN order
  ELSE [order EXCEPT !.next = @ + 1]

ReqNo(S) == IF order = NoOrder \/ S = {} THEN 0 ELSE order.next

\* The client of connection c goes away.  purged records that the handler
\* has run and that no sample was stored since.
Close(c) ==
  /\ conn[c].state = "open"
  /\ CloseEffect(c)
  /\ purged' = [i \in Ids |-> TRUE]
  /\ stale' = [i \in Ids |-> FALSE]
  /\ order' = Forget(Ids)
  /\ UNCHANGED <<now, calls, nextSeq, listCalls, hostCalls, est, load, clientVars>>

\* Time passes.  A due timer fires before the clock moves on.
Advance ==
  /\ now < MaxTime
  /\ \A c \in Conns : conn[c].state = "open" => now < conn[c].timerDue
  /\ now' = now + Tick
  /\ UNCHANGED <<cpuStats, lastStats, lastStatsTime, conn, calls, nextSeq,
                 listCalls, hostCalls, purged, stale, order, est, load, clientVars>>

\* ------------------------------------------------------- getContainerStats
\* What getContainerStats(id) does once container.stats() has settled:
\* outcome 0 is a rejection, outcome k >= 1 the sample SampleOf(k).  prev is
\* cpuStats[id].  The result is what is returned (stats) and what cpuStats[id]
\* holds afterwards (keep).
getContainerStats_keepOnError(prev, outcome) ==
  IF outcome = 0
    THEN [stats |-> ZeroStats("failed"), keep |-> prev]
  ELSE LET currentStats == SampleOf(outcome)
           cpuPercent == calculateCpuPercent(currentStats, prev)
           memUsage == currentStats.usage
           memLimit == IF currentStats.limit = 0 THEN HOST_TOTALMEM
                       ELSE currentStats.limit
       IN  IF cpuPercent = Thrown
             THEN [stats |-> ZeroStats("failed"), keep |-> prev]
           ELSE [stats |-> [cpu |-> cpuPercent, ramUsage |-> MiBRound(memUsage),
                            ramLimit |-> MiBRound(memLimit), src |-> "ok",
                            k |-> outcome, fp |-> FALSE],
                 keep |-> currentStats]

getContainerStats(prev, outcome) ==
  IF outcome = 0
    THEN [stats |-> ZeroStats("failed"), keep |-> NoSample]
  ELSE LET currentStats == SampleOf(outcome)
           cpuPercent == calculateCpuPercent(currentStats, prev)
           memUsage == currentStats.usage
           memLimit == IF currentStats.limit = 0 THEN HOST_TOTALMEM
                       ELSE currentStats.limit
       IN  IF cpuPercent = Thrown
             THEN [stats |-> ZeroStats("failed"), keep |-> NoSample]
           ELSE [stats |-> [cpu |-> cpuPercent, ramUsage |-> MiBRound(memUsage),
                            ramLimit |-> MiBRound(memLimit), src |-> "ok",
                            k |-> outcome, fp |-> FALSE],
                 keep |-> currentStats]

\* ------------------------------------------------------------ getDockerStats
\* What docker.listContainers({all: true}) may answer for each id: not listed,
\* running (State "running"), paused (State "paused", Status "Up ...
\* (Paused)"), exited (State "exited", Status "Exited ..."), or exited with
\* no Names (`c.Names[0]` throws in the mapper, after its
\* `delete cpuStats[c.Id]`).
Kinds == {"absent", "running", "paused", "exited", "bad"}

\* `c.State === "running" || c.Status.toLowerCase().includes("up")`
Up(kind) == kind = "running" \/ kind = "paused"
Listings == {l \in [Ids -> Kinds] : \A i \in Ids : i > load.ids => l[i] = "absent"}

Listed(l) == {i \in Ids : l[i] # "absent"}

\* the else branch of the mapper: the entry is listed and not Up
Stopped(kind) == kind = "exited" \/ kind = "bad"

\* the activations S after a pass has got listing l: a stats request that is
\* still pending for an id the listing shows stopped is marked as older than
\* that stop
Outdated(S, l) ==
  {[c EXCEPT !.old = @ \cup {i \in c.pending : Stopped(l[i])}] : c \in S}
Running(l) == {i \in Ids : Up(l[i])}

\* the snapshot a pass resolves to: the array of {id, ..., cpu, ramUsage,
\* ramLimit}, with the pass that made it as its identity
Strip(e) == [cpu |-> e.cpu, ramUsage |-> e.ramUsage, ramLimit |-> e.ramLimit]

Snapshot(k, res) ==
  [pass |-> k.seq, ents |-> [i \in DOMAIN res |-> Strip(res[i])]]

\* docker.listContainers rejected: `catch (e) { ...; return []; }`, and
\* getDockerStatsCached stores the empty list.
ListFailed_backoff(k) ==
  LET snap == Snapshot(k, <<>>)
  IN  /\ k \in calls /\ k.pc = "list"
      /\ lastStats' = snap
      /\ lastStatsTime' = now + CACHE_TTL
      /\ calls' = (calls \ {k}) \cup {[k EXCEPT !.pc = "ready", !.snap = snap]}
      /\ UNCHANGED <<now, cpuStats, conn, nextSeq, listCalls, hostCalls, purged,
                     stale, order, est, load, clientVars>>

ListFailed(k) ==
  LET snap == Snapshot(k, <<>>)
  IN  /\ k \in calls /\ k.pc = "list"
      /\ StoreStats(k, snap)
      /\ calls' = (calls \ {k}) \cup {[k EXCEPT !.pc = "ready", !.snap = snap]}
      /\ UNCHANGED <<now, cpuStats, conn, nextSeq, listCalls, hostCalls, purged,
                     stale, order, est, load, clientVars>>

\* docker.listContainers resolved with listing l: every mapper runs up to its
\* first await.  A mapper that throws rejects Promise.all, which is returned
\* without await: the rejection leaves getDockerStats and
\* getDockerStatsCached, and sendData writes the error message, while the
\* stats requests already issued stay pending.
ListDone_keepStopped(k, l) ==
  LET res0 == [i \in Listed(l) |->
                 IF Up(l[i]) THEN Pending ELSE ZeroStats("stopped")]
      rejected == \E i \in Ids : l[i] = "bad"
      k1 == [k EXCEPT !.listing = l, !.pending = Running(l), !.res = res0,
                      !.req = ReqNo(Running(l))]
      snap == Snapshot(k, res0)
      others == Outdated(calls \ {k}, l)
  IN  /\ k \in calls /\ k.pc = "list"
      /\ stale' = [i \in Ids |-> stale[i] /\ ~Stopped(l[i])]
      /\ cpuStats' = cpuStats
      /\ order' = Issue(Running(l))
      /\ IF rejected
           THEN /\ conn' = Written(k.conn, "error", k)
                /\ calls' = others \cup
                     (IF Running(l) = {} THEN {}
                      ELSE {[k1 EXCEPT !.pc = "orphan"]})
                /\ UNCHANGED <<lastStats, lastStatsTime>>
         ELSE IF Running(l) = {}
           THEN /\ StoreStats(k, snap)
                /\ calls' = others \cup
                     {[k1 EXCEPT !.pc = "ready", !.snap = snap]}
                /\ UNCHANGED conn
         ELSE /\ calls' = others \cup {[k1 EXCEPT !.pc = "stats"]}
              /\ UNCHANGED <<lastStats, lastStatsTime, conn>>
      /\ UNCHANGED <<now, nextSeq, listCalls, hostCalls, purged, est, load, clientVars>>

ListDone(k, l) ==
  LET res0 == [i \in Listed(l) |->
                 IF Up(l[i]) THEN Pending ELSE ZeroStats("stopped")]
      rejected == \E i \in Ids : l[i] = "bad"
      k1 == [k EXCEPT !.listing = l, !.pending = Running(l), !.res = res0,
                      !.req = ReqNo(Running(l))]
      snap == Snapshot(k, res0)
      others == Outdated(calls \ {k}, l)
  IN  /\ k \in calls /\ k.pc = "list"
      /\ stale' = [i \in Ids |-> stale[i] /\ ~Stopped(l[i])]
      /\ cpuStats' = [i \in Ids |->
           IF Stopped(l[i]) THEN NoSample ELSE cpuStats[i]]
      /\ order' = IF order = NoOrder THEN order
                  ELSE [next |-> Issue(Running(l)).next,
                        held |-> Forget({i \in Ids : Stopped(l[i])}).held]
      /\ IF rejected
           THEN /\ conn' = Written(k.conn, "error", k)
                /\ calls' = others \cup
                     (IF Running(l) = {} THEN {}
                      ELSE {[k1 EXCEPT !.pc = "orphan"]})
                /\ UNCHANGED <<lastStats, lastStatsTime>>
         ELSE IF Running(l) = {}
           THEN /\ StoreStats(k, snap)
                /\ calls' = others \cup
                     {[k1 EXCEPT !.pc = "ready", !.snap = snap]}
                /\ UNCHANGED conn
         ELSE /\ calls' = others \cup {[k1 EXCEPT !.pc = "stats"]}
              /\ UNCHANGED <<lastStats, lastStatsTime, conn>>
      /\ UNCHANGED <<now, nextSeq, listCalls, hostCalls, purged, est, load, clientVars>>

\* container.stats() of id i settles in pass k with the given outcome.  When
\* it was the last one pending, Promise.all resolves and the snapshot is
\* stored.
StatsDone(k, i, outcome) ==
  LET r == getContainerStats(cpuStats[i], outcome)
      entry == IF r.stats.src = "ok"
                 THEN [r.stats EXCEPT !.fp = purged[i]] ELSE r.stats
      res1 == [k.res EXCEPT ![i] = entry]
      k1 == [k EXCEPT !.pending = @ \ {i}, !.old = @ \ {i}, !.res = res1]
      snap == Snapshot(k, res1)
  IN  /\ k \in calls /\ k.pc \in {"stats", "orphan"}
      /\ i \in k.pending
      /\ cpuStats' = [cpuStats EXCEPT ![i] = r.keep]
      /\ purged' = IF r.keep # NoSample /\ r.stats.src = "ok"
                     THEN [purged EXCEPT ![i] = FALSE] ELSE purged
      /\ stale' = [stale EXCEPT ![i] = r.keep # NoSample /\ i \in k.old]
      /\ order' = IF order = NoOrder THEN order
                  ELSE [order EXCEPT !.held[i] =
                          IF r.keep = NoSample THEN 0 ELSE k.req]
      /\ IF k1.pending # {}
           THEN /\ calls' = (calls \ {k}) \cup {k1}
                /\ UNCHANGED <<lastStats, lastStatsTime>>
         ELSE IF k.pc = "orphan"
           THEN /\ calls' = calls \ {k}
                /\ UNCHANGED <<lastStats, lastStatsTime>>
         ELSE /\ StoreStats(k, snap)
              /\ calls' = (calls \ {k}) \cup
                   {[k1 EXCEPT !.pc = "ready", !.snap = snap]}
      /\ UNCHANGED <<now, conn, nextSeq, listCalls, hostCalls, est, load, clientVars>>

\* getHostStats has resolved too: `res.write(data: {containers, host})`
Write(k) ==
  /\ k \in calls /\ k.pc = "ready"
  /\ conn' = Written(k.conn, "data", k)
  /\ calls' = calls \ {k}
  /\ UNCHANGED <<now, cpuStats, lastStats, lastStatsTime, nextSeq, listCalls, hostCalls,
                 purged, stale, order, est, load, clientVars>>

\* --------------------------------------------------------- specification
Next ==
  \/ \E c \in Conns : Connect(c)
  \/ \E c \in Conns : TimerFire(c)
  \/ \E c \in Conns : Close(c)
  \/ Advance
  \/ \E k \in calls : ListFailed(k)
  \/ \E k \in calls : \E l \in Listings : ListDone(k, l)
  \/ \E k \in calls : \E i \in Ids : \E o \in 0..NSamples : StatsDone(k, i, o)
  \/ \E k \in calls : Write(k)

Spec == Init /\ [][Next]_vars

\* the same server with one container and all its clients, and the order of
\* the stats requests recorded
InitRace ==
  /\ InitSampler
  /\ order = [next |-> 1, held |-> [i \in Ids |-> 0]]
  /\ IdlePage
  /\ load = [conns |-> MaxConns, ids |-> 1, release |-> "1.2.0"]
  /\ est = [stats |-> SampleOf(1), prev |-> NoSample, out |-> NoEst]

SpecRace == InitRace /\ [][Next]_vars

\* ------------------------------------------------ the estimator on its own
\* calculateCpuPercent applied to every pair of samples over a small set of
\* counter values, with missing fields and a missing previous sample.
CounterVals == {Undefined, 0, 1000, 1500, 10000, 15000}

EstSamples ==
  {MkSample(TRUE, t, s, 0, 0) : t \in CounterVals, s \in CounterVals}
    \cup {MkSample(FALSE, Undefined, Undefined, 0, 0)}

InitCpu ==
  /\ InitServer
  /\ IdlePage
  /\ load = [conns |-> 1, ids |-> 1, release |-> "1.2.0"]
  /\ est \in [stats : EstSamples, prev : EstSamples \cup {NoSample},
              out : {NoEst}]

Estimate ==
  /\ est.out = NoEst
  /\ est' = [est EXCEPT !.out = calculateCpuPercent(est.stats, est.prev)]
  /\ UNCHANGED <<serverVars, load, clientVars>>

NextCpu == Estimate

SpecCpu == InitCpu /\ [][NextCpu]_vars

\* ----------------------------------------------------- the host sampler
\* host.js: getHostCpuUsage and getHostStats, and the payload sendData makes
\* of the host snapshot.  si.currentLoad() resolves with a load (Num) or
\* rejects (ReadFailed); a rejection that leaves an async function is Thrown.
ReadFailed == [failed |-> TRUE]

\* `try { return (await si.currentLoad()).currentLoad } catch { return 0 }`
getHostCpuUsage_rethrow(read) == IF read = ReadFailed THEN Thrown ELSE read

getHostCpuUsage(read) == IF read = ReadFailed THEN Num(0) ELSE read

\* what the host answers to one call of getHostStats: os.totalmem(),
\* os.freemem(), os.cpus().length, os.loadavg(), docker.info() ("failed",
\* "noname": no Name in the answer, or "named"), si.currentLoad()
OS_HOSTNAME == "os-host"
DOCKER_NAME == "docker-host"
NoHostname == "null"

HostInputs ==
  [totalMem : {HOST_TOTALMEM}, freeMem : {0, MIB, 3 * MIB + MIB \div 2},
   cpus : {1, 4}, loadavg : {<<0, 0, 0>>, <<1, 2, 3>>},
   info : {"failed", "noname", "named"},
   read : {ReadFailed, Num(0), Num(37)}]

\* `if (!cachedHostname) { try { info = await docker.info(); cachedHostname =
\* info && info.Name ? info.Name : os.hostname() } catch { cachedHostname =
\* os.hostname() } }`
Hostname(cached, in) ==
  IF cached # NoHostname THEN cached
  ELSE IF in.info = "named" THEN DOCKER_NAME ELSE OS_HOSTNAME

\* the object getHostStats resolves to, or Thrown when an await in it
\* rejects
getHostStats(cached, in) ==
  LET usedMem == in.totalMem - in.freeMem
      cpu == getHostCpuUsage(in.read)
  IN  IF cpu = Thrown THEN Thrown
      ELSE [hostname |-> Hostname(cached, in),
            totalMemory |-> in.totalMem \div MIB,
            memoryUsagePercent |-> Ratio(usedMem * 100, in.totalMem),
            cpuCores |-> in.cpus,
            cpuUsage |-> cpu,
            loadAverage |-> in.loadavg]

\* sendData: `try { [containers, host] = await Promise.all([...]);
\* res.write(data: {containers, host}) } catch { res.write(data: {"error":
\* "server error"}) }`; containers is "rejected" or the list
Payload(containers, host) ==
  IF containers = "rejected" \/ host = Thrown
    THEN [error |-> "server error"]
  ELSE [containers |-> containers, host |-> host]

NoHost == [pending |-> TRUE]

InitHost ==
  /\ InitServer
  /\ IdlePage
  /\ load = [conns |-> 1, ids |-> 1, release |-> "1.2.0"]
  /\ est = [cachedHostname |-> NoHostname, in |-> NoHost, out |-> NoHost,
            containers |-> "none", push |-> NoHost]

\* one activation of sendData, as far as the host is concerned
HostPush(in, containers) ==
  LET out == getHostStats(est.cachedHostname, in)
  IN  /\ hostCalls < MaxHostCalls
      /\ hostCalls' = hostCalls + 1
      /\ est' = [cachedHostname |-> Hostname(est.cachedHostname, in),
                 in |-> in, out |-> out, containers |-> containers,
                 push |-> Payload(containers, out)]
      /\ UNCHANGED <<now, cpuStats, lastStats, lastStatsTime, conn, calls,
                     nextSeq, listCalls, purged, stale, order, load, clientVars>>

NextHost ==
  \E in \in HostInputs, containers \in {"rejected", "list"} :
    HostPush(in, containers)

SpecHost == InitHost /\ [][NextHost]_vars

\* ================================================================ the page
\* The browser side: charts.js, renderer.js and core.js.  A value read from
\* a snapshot is a number Num(v), NaN, or NoValue (the field is missing).
NoValue == [undef |-> TRUE]

\* `typeof x === 'number'`
IsNumber(x) == x # NoValue

\* `x || 0`: undefined, NaN and 0 are falsy
OrNum0(x) == IF x = NoValue \/ x.nan \/ x.v = 0 THEN Num(0) ELSE x

\* `x >= 0`: false for undefined and for NaN
JsGe0(x) == x # NoValue /\ ~x.nan /\ x.v >= 0

\* `Math.min(100, Math.max(0, x))` for x a number or NaN
Clamp100(x) ==
  IF x.nan THEN NaN
  ELSE IF x.v < 0 THEN Num(0)
  ELSE IF x.v > 100 THEN Num(100) ELSE x

\* `c.ramLimit > 0 ? (c.ramUsage / c.ramLimit) * 100 : 0`; the limits of the
\* model divide exactly
RamPct(c) ==
  IF c.ramLimit > 0
    THEN IF c.ramUsage = NoValue \/ c.ramUsage.nan THEN NaN
         ELSE Num((c.ramUsage.v * 100) \div c.ramLimit)
  ELSE Num(0)

\* chart ids: 'host-cpu-chart', 'host-ram-chart', `${id}-cpu`, `${id}-ram`;
\* the key of a chart id is 'host' (HostKey) or the container id
HostKey == 0
Keys == {HostKey} \cup Ids
Types == {"cpu", "ram"}

NoHistory == [absent |-> TRUE]
EmptyHistory == [cpu |-> <<>>, ram |-> <<>>]

\* `historyData[key] || (historyData[key] = { cpu: [], ram: [] })`
getHistory(h, key) ==
  IF h[key] = NoHistory THEN [h EXCEPT ![key] = EmptyHistory] ELSE h

\* The state of the page is passed along as a record p: h (historyData),
\* g (appended), c (charts), cards, ready (echartsReady), first
\* (isFirstRender).  dom tells whether the element of the chart id exists.
initChart(p, key, type, initialValue, dom) ==
  IF ~p.ready \/ ~dom THEN p
  ELSE LET h1 == getHistory(p.h, key)
           g1 == getHistory(p.g, key)
           seed == h1[key][type] = <<>> /\ IsNumber(initialValue)
           fill == [n \in 1..SEED_POINTS |-> Clamp100(initialValue)]
       IN  [p EXCEPT !.h = IF seed THEN [h1 EXCEPT ![key][type] = fill]
                           ELSE h1,
                     !.g = IF seed THEN [g1 EXCEPT ![key][type] = @ \o fill]
                           ELSE g1,
                     !.c = @ \cup {<<key, type>>}]

updateChart_noShift(p, key, type, value, dom) ==
  LET h1 == getHistory(p.h, key)
      g1 == getHistory(p.g, key)
      x == Clamp100(OrNum0(value))
      arr == Append(h1[key][type], x)
      p1 == [p EXCEPT !.h = [h1 EXCEPT ![key][type] = arr],
                      !.g = [g1 EXCEPT ![key][type] = Append(@, x)]]
  IN  IF <<key, type>> \in p.c THEN p1
      ELSE initChart(p1, key, type, value, dom)

updateChart_noClamp(p, key, type, value, dom) ==
  LET h1 == getHistory(p.h, key)
      g1 == getHistory(p.g, key)
      x == OrNum0(value)
      arr == Append(h1[key][type], x)
      p1 == [p EXCEPT !.h = [h1 EXCEPT ![key][type] =
                               IF Len(arr) > MAX_DATA_POINTS THEN Tail(arr)
                               ELSE arr],
                      !.g = [g1 EXCEPT ![key][type] = Append(@, x)]]
  IN  IF <<key, type>> \in p.c THEN p1
      ELSE initChart(p1, key, type, value, dom)

updateChart(p, key, type, value, dom) ==
  LET h1 == getHistory(p.h, key)
      g1 == getHistory(p.g, key)
      x == Clamp100(OrNum0(value))
      arr == Append(h1[key][type], x)
      p1 == [p EXCEPT !.h = [h1 EXCEPT ![key][type] =
                               IF Len(arr) > MAX_DATA_POINTS THEN Tail(arr)
                               ELSE arr],
                      !.g = [g1 EXCEPT ![key][type] = Append(@, x)]]
  IN  IF <<key, type>> \in p.c THEN p1
      ELSE initChart(p1, key, type, value, dom)

\* `Object.keys(charts).forEach(k => ...)`: for every chart whose key is not
\* 'host' and not active, the chart is disposed and deleted and the history
\* of its key is deleted
cleanUpCharts_noHostGuard(p, activeIds) ==
  LET gone == {k \in p.c : k[1] \notin activeIds}
      ids == {k[1] : k \in gone}
  IN  [p EXCEPT !.h = [key \in Keys |-> IF key \in ids THEN NoHistory
                                        ELSE p.h[key]],
                !.g = [key \in Keys |-> IF key \in ids THEN NoHistory
                                        ELSE p.g[key]],
                !.c = @ \ gone]

cleanUpCharts(p, activeIds) ==
  LET gone == {k \in p.c : k[1] # HostKey /\ k[1] \notin activeIds}
      ids == {k[1] : k \in gone}
  IN  [p EXCEPT !.h = [key \in Keys |-> IF key \in ids THEN NoHistory
                                        ELSE p.h[key]],
                !.g = [key \in Keys |-> IF key \in ids THEN NoHistory
                                        ELSE p.g[key]],
                !.c = @ \ gone]

initHostCharts(p) ==
  IF ~p.ready THEN p
  ELSE initChart(initChart(p, HostKey, "cpu", NoValue, TRUE),
                 HostKey, "ram", NoValue, TRUE)

\* ------------------------------------------------------------ renderAllData
\* A snapshot as parsed from a message: {error} or {containers, host}.
NoData == [none |-> TRUE]

ErrorData ==
  [error |-> TRUE, host |-> [cpuUsage |-> NoValue,
                             memoryUsagePercent |-> NoValue],
   containers |-> <<>>]

\* the least element of a non-empty set of ids: `containers.forEach` goes
\* through the array in order
First(S) == CHOOSE i \in S : \A j \in S : i <= j

\* `updateChart(`${c.id}-cpu`, ...); updateChart(`${c.id}-ram`, ...)` for the
\* containers S of the snapshot; the chart elements of a container exist
\* when its card is in the page
RECURSIVE UpdateEach(_, _, _)
UpdateEach(p, data, S) ==
  IF S = {} THEN p
  ELSE LET i == First(S)
           c == data.containers[i]
           a == updateChart(p, i, "cpu", c.cpu, i \in p.cards)
           b == updateChart(a, i, "ram", RamPct(c), i \in p.cards)
       IN  UpdateEach(b, data, S \ {i})

\* the initChart calls after the cards have been inserted: for every
\* container (first render) or for the charts that are missing
RECURSIVE InitEach(_, _, _, _)
InitEach(p, data, S, all) ==
  IF S = {} THEN p
  ELSE LET i == First(S)
           c == data.containers[i]
           a == IF all \/ <<i, "cpu">> \notin p.c
                  THEN initChart(p, i, "cpu", c.cpu, TRUE) ELSE p
           b == IF all \/ <<i, "ram">> \notin a.c
                  THEN initChart(a, i, "ram", RamPct(c), TRUE) ELSE a
       IN  InitEach(b, data, S \ {i}, all)

renderAllData(p, data) ==
  IF data.error
    THEN cleanUpCharts([p EXCEPT !.cards = {}], {})
  ELSE LET activeIds == DOMAIN data.containers
           p1 == IF JsGe0(data.host.cpuUsage)
                   THEN updateChart(p, HostKey, "cpu", data.host.cpuUsage, TRUE)
                 ELSE p
           p2 == IF JsGe0(data.host.memoryUsagePercent)
                   THEN updateChart(p1, HostKey, "ram",
                                    data.host.memoryUsagePercent, TRUE)
                 ELSE p1
           p3 == UpdateEach(p2, data, activeIds)
           newHtml == IF p.first THEN activeIds ELSE activeIds \ p.cards
           p4 == IF p.first
                   THEN InitEach([p3 EXCEPT !.cards = activeIds, !.first = FALSE],
                                 data, activeIds, TRUE)
                 ELSE IF newHtml # {}
                   THEN InitEach([p3 EXCEPT !.cards = @ \cup newHtml],
                                 data, activeIds, FALSE)
                 ELSE p3
           p5 == [p4 EXCEPT !.cards = @ \cap activeIds]
       IN  cleanUpCharts(p5, activeIds)

\* ----------------------------------------------------- the page as a machine
Page ==
  [h |-> historyData, g |-> appended, c |-> charts, cards |-> cards,
   ready |-> echartsReady, first |-> isFirstRender]

SetPage(p) ==
  /\ historyData' = p.h
  /\ appended' = p.g
  /\ charts' = p.c
  /\ cards' = p.cards
  /\ echartsReady' = p.ready
  /\ isFirstRender' = p.first

\* The snapshots the page is given.  With the ramp feed every series is
\* given 1, 2, 3, ... (the n-th value pushed to a series is n), there is one
\* container, which comes and goes, and ECharts is loaded from the start;
\* with the raw feed a snapshot is {error} or carries one reading, in range
\* or not, for every metric of the host and of any set of containers.
Next1(g, key, type) ==
  IF g[key] = NoHistory THEN 1 ELSE Len(g[key][type]) + 1

RampData(A) ==
  [error |-> FALSE,
   host |-> [cpuUsage |-> Num(Next1(appended, HostKey, "cpu")),
             memoryUsagePercent |-> Num(Next1(appended, HostKey, "ram"))],
   containers |-> [i \in A |->
     [cpu |-> Num(Next1(appended, i, "cpu")),
      ramUsage |-> Num(Next1(appended, i, "ram")), ramLimit |-> 100]]]

Readings ==
  {[v |-> NoValue, lim |-> 100], [v |-> Num(-5), lim |-> 100],
   [v |-> Num(50), lim |-> 100], [v |-> Num(150), lim |-> 100],
   [v |-> Num(50), lim |-> 0]}

RawData(A, r) ==
  [error |-> FALSE,
   host |-> [cpuUsage |-> r.v, memoryUsagePercent |-> r.v],
   containers |-> [i \in A |->
     [cpu |-> IF r.v = NoValue THEN Num(50) ELSE r.v,
      ramUsage |-> r.v, ramLimit |-> r.lim]]]

Datas ==
  IF feed.mode = "ramp"
    THEN {RampData(A) : A \in SUBSET {1}}
  ELSE IF feed.mode \in {"sse", "live"}
    THEN {ErrorData, RawData({1}, [v |-> Num(50), lim |-> 100])}
  ELSE {ErrorData} \cup {RawData(A, r) : A \in SUBSET Ids, r \in Readings}

InitPage ==
  /\ historyData = [key \in Keys |-> NoHistory]
  /\ appended = [key \in Keys |-> NoHistory]
  /\ charts = {}
  /\ cards = {}
  /\ isFirstRender = TRUE
  /\ lastRenderedData = NoData

\* `new EventSource('/stream')`: an object that is not the current one
NewSource == 1 - sourceId

\* the page has a stream that is open or being opened
Streaming == eventSource \in {"connecting", "open"}

\* connectSSE: `eventSource?.close(); eventSource = new EventSource(
\* '/stream')`
connectSSE_noClose ==
  /\ eventSource' = "connecting"
  /\ sourceId' = NewSource
  /\ openSources' = openSources + 1

connectSSE ==
  /\ eventSource' = "connecting"
  /\ sourceId' = NewSource
  /\ openSources' = (IF Streaming THEN openSources - 1 ELSE openSources) + 1

\* the event `name` is being handled; the events are told apart, two in a
\* row of the same name included, when the feed is the one of the stream
Signal(name) ==
  signal' = IF feed.mode = "sse" THEN [name |-> name, odd |-> ~signal.odd]
            ELSE signal

\* localStorage.getItem('dmon:lastSSE'): null (Missing), a text that
\* JSON.parse rejects (BadText), or the text of a snapshot
Missing == [missing |-> TRUE]
BadText == [bad |-> TRUE]

\* the raw text of a message, and JSON.parse of a text
Text(data) == [text |-> data]
Parsable(s) == s # Missing /\ s # BadText
Parse(s) == s.text

\* what the storage may hold when the page is loaded
Stores == {Missing, BadText} \cup {Text(d) : d \in Datas}

\* `try { localStorage.setItem('dmon:lastSSE', data); } catch {}`: the write
\* succeeds or throws (quota, access denied); with the ramp feed it succeeds
StorageOks == IF feed.mode = "ramp" THEN {TRUE} ELSE BOOLEAN

\* the storage has taken (ok) or refused the text of the message `data`
Saved(data, ok) == IF ok /\ feed.mode = "store" THEN data ELSE saved

\* the number of the message that lastRenderedData is
LastNo == rendered[Len(rendered)].n

\* core.js and lifecycle.js as the page loads, first part: initHostCharts
\* when ECharts is there, then restoreFromCache(true): `if (cached) {
\* isFirstRender = true; renderAllData(JSON.parse(cached), showMsg) }`, with
\* the exception of JSON.parse caught.
PageLoad_noRestore ==
  /\ feed.stage = "boot"
  /\ SetPage(initHostCharts(Page))
  /\ feed' = [feed EXCEPT !.stage = "restored"]
  /\ UNCHANGED <<lastRenderedData, rendered>>
  /\ UNCHANGED <<sseVars, stored, delivered, saved, serverVars, est, load>>

PageLoad ==
  LET p0 == initHostCharts(Page)
      p1 == IF stored = Missing THEN p0 ELSE [p0 EXCEPT !.first = TRUE]
  IN  /\ feed.stage = "boot"
      /\ IF Parsable(stored)
           THEN /\ SetPage(renderAllData(p1, Parse(stored)))
                /\ lastRenderedData' = Parse(stored)
                /\ rendered' = Append(rendered, [n |-> 0, cache |-> TRUE])
                /\ feed' = [feed EXCEPT !.stage = "restored", !.left = @ - 1]
         ELSE /\ SetPage(p1)
              /\ feed' = [feed EXCEPT !.stage = "restored"]
              /\ UNCHANGED <<lastRenderedData, rendered>>
      /\ UNCHANGED <<sseVars, stored, delivered, saved, serverVars, est, load>>

\* the page loads, second part: `connectSSE(); if (echartsReady)
\* initHostCharts();`
StartStream ==
  /\ feed.stage = "restored"
  /\ SetPage(initHostCharts(Page))
  /\ feed' = [feed EXCEPT !.stage = "live"]
  /\ connectSSE
  /\ Signal("load")
  /\ UNCHANGED <<sseReconnectDelay, sseReconnectTimer, timers, hidden,
                 visibleWaiting, focusListener, sseDelays, sseErrors>>
  /\ UNCHANGED <<lastRenderedData, logVars, serverVars, est, load>>

\* eventSource.onmessage, on the stream that is not closed: the snapshot
\* is rendered, its text is stored when the storage takes it, the delay is
\* reset and a pending reconnect is cancelled
OnMessage_stopOnStorageError(data, ok) ==
  /\ feed.stage = "live"
  /\ feed.left > 0
  /\ eventSource \in {"connecting", "open"}
  /\ SetPage(renderAllData(Page, data))
  /\ lastRenderedData' = data
  /\ feed' = [feed EXCEPT !.left = @ - 1]
  /\ eventSource' = "open"
  /\ delivered' = delivered + 1
  /\ rendered' = Append(rendered, [n |-> delivered + 1, cache |-> FALSE])
  /\ stored' = IF ok THEN Text(data) ELSE stored
  /\ saved' = Saved(data, ok)
  /\ sseReconnectDelay' = IF ok THEN SSE_DELAY_MIN ELSE sseReconnectDelay
  /\ sseReconnectTimer' = IF ok THEN NoReconnect ELSE sseReconnectTimer
  /\ timers' = IF ok THEN {t \in timers : t.id # sseReconnectTimer}
               ELSE timers
  /\ sseDelays' = <<>>
  /\ sseErrors' = 0
  /\ Signal("message")
  /\ UNCHANGED <<hidden, visibleWaiting, focusListener, sourceId,
                 openSources>>
  /\ UNCHANGED <<serverVars, est, load>>

OnMessage_storeFirst(data, ok) ==
  /\ feed.stage = "live"
  /\ feed.left > 0
  /\ eventSource \in {"connecting", "open"}
  /\ SetPage(renderAllData(Page, data))
  /\ lastRenderedData' = data
  /\ feed' = [feed EXCEPT !.left = @ - 1]
  /\ eventSource' = "open"
  /\ delivered' = delivered + 1
  /\ rendered' = Append(rendered, [n |-> delivered + 1, cache |-> FALSE])
  /\ stored' = IF ok /\ stored = Missing THEN Text(data) ELSE stored
  /\ saved' = Saved(data, ok)
  /\ sseReconnectDelay' = SSE_DELAY_MIN
  /\ sseReconnectTimer' = NoReconnect
  /\ timers' = {t \in timers : t.id # sseReconnectTimer}
  /\ sseDelays' = <<>>
  /\ sseErrors' = 0
  /\ Signal("message")
  /\ UNCHANGED <<hidden, visibleWaiting, focusListener, sourceId,
                 openSources>>
  /\ UNCHANGED <<serverVars, est, load>>

OnMessage(data, ok) ==
  /\ feed.stage = "live"
  /\ feed.left > 0
  /\ eventSource \in {"connecting", "open"}
  /\ SetPage(renderAllData(Page, data))
  /\ lastRenderedData' = data
  /\ feed' = [feed EXCEPT !.left = @ - 1]
  /\ eventSource' = "open"
  /\ delivered' = delivered + 1
  /\ rendered' = Append(rendered, [n |-> delivered + 1, cache |-> FALSE])
  /\ stored' = IF ok THEN Text(data) ELSE stored
  /\ saved' = Saved(data, ok)
  /\ sseReconnectDelay' = SSE_DELAY_MIN
  /\ sseReconnectTimer' = NoReconnect
  /\ timers' = {t \in timers : t.id # sseReconnectTimer}
  /\ sseDelays' = <<>>
  /\ sseErrors' = 0
  /\ Signal("message")
  /\ UNCHANGED <<hidden, visibleWaiting, focusListener, sourceId,
                 openSources>>
  /\ UNCHANGED <<serverVars, est, load>>

\* echartsScript.onload: the flag is set, the host charts are created and
\* the last snapshot is rendered again: `renderAllData(lastRenderedData,
\* true)`
EchartsLoaded ==
  LET p0 == initHostCharts([Page EXCEPT !.ready = TRUE])
  IN  /\ feed.stage = "live"
      /\ ~echartsReady
      /\ IF lastRenderedData = NoData
           THEN SetPage(p0) /\ UNCHANGED rendered
         ELSE /\ SetPage(renderAllData(p0, lastRenderedData))
              /\ rendered' = Append(rendered, [n |-> LastNo, cache |-> TRUE])
      /\ Signal("echarts")
      /\ UNCHANGED <<eventSource, sseReconnectDelay, sseReconnectTimer, timers,
                     hidden, visibleWaiting, focusListener, sseDelays,
                     sseErrors, sourceId, openSources>>
      /\ UNCHANGED <<lastRenderedData, feed, stored, delivered, saved>>
      /\ UNCHANGED <<serverVars, est, load>>

InitCharts ==
  /\ InitServer
  /\ load = [conns |-> 1, ids |-> 1, release |-> "1.2.0"]
  /\ est = [stats |-> SampleOf(1), prev |-> NoSample, out |-> NoEst]
  /\ InitPage
  /\ \/ /\ feed = [mode |-> "ramp", stage |-> "boot", left |-> MaxRenders]
        /\ echartsReady = TRUE
     \/ /\ feed = [mode |-> "raw", stage |-> "boot", left |-> MaxProbes]
        /\ echartsReady \in BOOLEAN
  /\ IdleStream
  /\ stored \in Stores

NextCharts ==
  \/ PageLoad
  \/ StartStream
  \/ \E d \in Datas, ok \in StorageOks : OnMessage(d, ok)
  \/ EchartsLoaded

SpecCharts == InitCharts /\ [][NextCharts]_vars

\* ------------------------------------------------------------- the stream
\* lifecycle.js: the EventSource of the page and its reconnection.
\* `Math.min(30000, sseReconnectDelay * 2)`
NextDelay_noCap(d) == d * 2

NextDelay(d) == IF d * 2 < SSE_DELAY_MAX THEN d * 2 ELSE SSE_DELAY_MAX

\* a timer id that no pending timeout has
FreeIds == {n \in 1..MaxTimers : \A t \in timers : t.id # n}

\* eventSource.onerror: the browser has lost or failed to open the stream;
\* it goes on trying by itself (CONNECTING) or gives up (CLOSED: fatal).
\* A reconnect is scheduled when none is.
OnError_always(fatal) ==
  /\ feed.stage = "live"
  /\ eventSource \in {"connecting", "open"}
  /\ sseErrors < MaxErrors
  /\ FreeIds # {}
  /\ eventSource' = IF fatal THEN "closed" ELSE "connecting"
  /\ openSources' = IF fatal THEN openSources - 1 ELSE openSources
  /\ sseErrors' = sseErrors + 1
  /\ LET id == First(FreeIds)
     IN  /\ timers' = timers \cup {[id |-> id, delay |-> sseReconnectDelay]}
         /\ sseReconnectTimer' = id
         /\ sseDelays' = Append(sseDelays, sseReconnectDelay)
  /\ Signal("error")
  /\ UNCHANGED <<sseReconnectDelay, hidden, visibleWaiting, focusListener,
                 sourceId>>
  /\ UNCHANGED <<chartVars, logVars, serverVars, est, load>>

OnError(fatal) ==
  /\ feed.stage = "live"
  /\ eventSource \in {"connecting", "open"}
  /\ sseErrors < MaxErrors
  /\ FreeIds # {}
  /\ eventSource' = IF fatal THEN "closed" ELSE "connecting"
  /\ openSources' = IF fatal THEN openSources - 1 ELSE openSources
  /\ sseErrors' = sseErrors + 1
  /\ IF sseReconnectTimer = NoReconnect
       THEN LET id == First(FreeIds)
            IN  /\ timers' = timers \cup
                               {[id |-> id, delay |-> sseReconnectDelay]}
                /\ sseReconnectTimer' = id
                /\ sseDelays' = Append(sseDelays, sseReconnectDelay)
     ELSE UNCHANGED <<timers, sseReconnectTimer, sseDelays>>
  /\ Signal("error")
  /\ UNCHANGED <<sseReconnectDelay, hidden, visibleWaiting, focusListener,
                 sourceId>>
  /\ UNCHANGED <<chartVars, logVars, serverVars, est, load>>

\* the callback of the reconnect timeout t: `connectSSE(); sseReconnectTimer
\* = null; sseReconnectDelay = Math.min(30000, sseReconnectDelay * 2)`
Reconnect_keepTimerId(t) ==
  /\ t \in timers
  /\ timers' = timers \ {t}
  /\ connectSSE
  /\ sseReconnectDelay' = NextDelay(sseReconnectDelay)
  /\ Signal("timer")
  /\ UNCHANGED <<sseReconnectTimer, hidden, visibleWaiting, focusListener,
                 sseDelays, sseErrors>>
  /\ UNCHANGED <<chartVars, logVars, serverVars, est, load>>

Reconnect(t) ==
  /\ t \in timers
  /\ timers' = timers \ {t}
  /\ connectSSE
  /\ sseReconnectTimer' = NoReconnect
  /\ sseReconnectDelay' = NextDelay(sseReconnectDelay)
  /\ Signal("timer")
  /\ UNCHANGED <<hidden, visibleWaiting, focusListener, sseDelays, sseErrors>>
  /\ UNCHANGED <<chartVars, logVars, serverVars, est, load>>

\* 'pageshow': `if (e.persisted) connectSSE()`, and connectSSE is
\* `eventSource?.close(); eventSource = new EventSource('/stream')`
PageShow_keepOpen(persisted) ==
  /\ feed.stage = "live"
  /\ Signal(IF persisted THEN "pageshow" ELSE "pageshow, not persisted")
  /\ IF persisted /\ ~Streaming
       THEN connectSSE
     ELSE UNCHANGED <<eventSource, sourceId, openSources>>
  /\ UNCHANGED <<sseReconnectDelay, sseReconnectTimer, timers, hidden,
                 visibleWaiting, focusListener, sseDelays, sseErrors>>
  /\ UNCHANGED <<chartVars, logVars, serverVars, est, load>>

PageShow(persisted) ==
  /\ feed.stage = "live"
  /\ Signal(IF persisted THEN "pageshow" ELSE "pageshow, not persisted")
  /\ IF persisted
       THEN connectSSE
     ELSE UNCHANGED <<eventSource, sourceId, openSources>>
  /\ UNCHANGED <<sseReconnectDelay, sseReconnectTimer, timers, hidden,
                 visibleWaiting, focusListener, sseDelays, sseErrors>>
  /\ UNCHANGED <<chartVars, logVars, serverVars, est, load>>

\* _onHidden, on 'visibilitychange' with document.hidden true: `if
\* (_visiblePromiseResolve) return;` the stream is closed and _onVisible is
\* registered for the next 'focus'
Hide ==
  /\ feed.stage = "live"
  /\ hidden' = TRUE
  /\ Signal("hide")
  /\ IF visibleWaiting
       THEN UNCHANGED <<visibleWaiting, eventSource, openSources,
                        focusListener>>
     ELSE /\ visibleWaiting' = TRUE
          /\ eventSource' = IF eventSource = "none" THEN "none" ELSE "closed"
          /\ openSources' = IF Streaming THEN openSources - 1
                            ELSE openSources
          /\ focusListener' = TRUE
  /\ UNCHANGED <<sseReconnectDelay, sseReconnectTimer, timers, sseDelays,
                 sseErrors, sourceId>>
  /\ UNCHANGED <<chartVars, logVars, serverVars, est, load>>

\* _onVisible: `if (!eventSource || eventSource.readyState ===
\* EventSource.CLOSED) connectSSE()`
onVisible_always ==
  /\ visibleWaiting' = FALSE
  /\ connectSSE
  /\ UNCHANGED <<sseReconnectDelay, sseReconnectTimer, timers, sseDelays,
                 sseErrors>>
  /\ UNCHANGED <<chartVars, logVars, serverVars, est, load>>

onVisible ==
  /\ visibleWaiting' = FALSE
  /\ IF eventSource \in {"none", "closed"}
       THEN connectSSE
     ELSE UNCHANGED <<eventSource, sourceId, openSources>>
  /\ UNCHANGED <<sseReconnectDelay, sseReconnectTimer, timers, sseDelays,
                 sseErrors>>
  /\ UNCHANGED <<chartVars, logVars, serverVars, est, load>>

\* 'visibilitychange' with document.hidden false
Show ==
  /\ feed.stage = "live"
  /\ hidden' = FALSE
  /\ Signal("show")
  /\ onVisible
  /\ UNCHANGED focusListener

\* 'focus', for which _onVisible was registered once
Focus ==
  /\ feed.stage = "live"
  /\ focusListener
  /\ focusListener' = FALSE
  /\ Signal("focus")
  /\ onVisible
  /\ UNCHANGED hidden

InitSse ==
  /\ InitServer
  /\ load = [conns |-> 1, ids |-> 1, release |-> "1.2.0"]
  /\ est = [stats |-> SampleOf(1), prev |-> NoSample, out |-> NoEst]
  /\ InitPage
  /\ echartsReady = TRUE
  /\ feed = [mode |-> "sse", stage |-> "boot", left |-> MaxProbes]
  /\ IdleStream
  /\ stored \in Stores

NextSse ==
  \/ PageLoad
  \/ StartStream
  \/ \E d \in Datas, ok \in StorageOks : OnMessage(d, ok)
  \/ \E fatal \in BOOLEAN : OnError(fatal)
  \/ \E t \in timers : Reconnect(t)
  \/ \E persisted \in BOOLEAN : PageShow(persisted)
  \/ Hide
  \/ Show
  \/ Focus

SpecSse == InitSse /\ [][NextSse]_vars

\* The same page with what the browser guarantees: the script that loads
\* the page runs to its end, and a timeout that is pending fires.  The
\* events of the stream and of the window come or do not come.
InitLive ==
  /\ InitServer
  /\ load = [conns |-> 1, ids |-> 1, release |-> "1.2.0"]
  /\ est = [stats |-> SampleOf(1), prev |-> NoSample, out |-> NoEst]
  /\ InitPage
  /\ echartsReady = TRUE
  /\ feed = [mode |-> "live", stage |-> "boot", left |-> MaxProbes - 1]
  /\ IdleStream
  /\ stored = Missing

SpecSseLive ==
  /\ InitLive
  /\ [][NextSse]_vars
  /\ WF_vars(PageLoad)
  /\ WF_vars(StartStream)
  /\ WF_vars(\E t \in timers : Reconnect(t))

\* ------------------------------------------------------------ the storage
\* The page is loaded again (reload, or the tab is discarded and restored):
\* a new document, in which every variable of core.js, charts.js and
\* lifecycle.js has its initial value; localStorage is what it was.
Reload ==
  /\ feed.stage = "live"
  /\ feed.left > 0
  /\ historyData' = [key \in Keys |-> NoHistory]
  /\ appended' = [key \in Keys |-> NoHistory]
  /\ charts' = {}
  /\ cards' = {}
  /\ isFirstRender' = TRUE
  /\ lastRenderedData' = NoData
  /\ feed' = [feed EXCEPT !.stage = "boot"]
  /\ eventSource' = "none"
  /\ openSources' = 0
  /\ sseReconnectDelay' = SSE_DELAY_MIN
  /\ sseReconnectTimer' = NoReconnect
  /\ timers' = {}
  /\ hidden' = FALSE
  /\ visibleWaiting' = FALSE
  /\ focusListener' = FALSE
  /\ sseDelays' = <<>>
  /\ sseErrors' = 0
  /\ delivered' = 0
  /\ rendered' = <<>>
  /\ UNCHANGED <<echartsReady, sourceId, signal, stored, saved>>
  /\ UNCHANGED <<serverVars, est, load>>

\* the page, its stream and its storage over several loads of the page: the
\* snapshots are those of the raw feed
InitStore ==
  /\ InitServer
  /\ load = [conns |-> 1, ids |-> 1, release |-> "1.2.0"]
  /\ est = [stats |-> SampleOf(1), prev |-> NoSample, out |-> NoEst]
  /\ InitPage
  /\ echartsReady \in BOOLEAN
  /\ feed = [mode |-> "store", stage |-> "boot", left |-> MaxProbes]
  /\ IdleStream
  /\ stored \in Stores

NextStore ==
  \/ PageLoad
  \/ StartStream
  \/ \E d \in Datas, ok \in StorageOks : OnMessage(d, ok)
  \/ Reload

SpecStore == InitStore /\ [][NextStore]_vars

\* ------------------------------------------------------------------ claims
\* the deltas as the specification defines them, on the harness inputs
EstHasPair ==
  /\ est.out # NoEst
  /\ est.prev # NoSample
  /\ est.stats.has_cpu /\ est.prev.has_cpu

EstCpuKnown == est.stats.total # Undefined /\ est.prev.total # Undefined
EstSysKnown == est.stats.system # Undefined /\ est.prev.system # Undefined
EstCpuDelta == est.stats.total - est.prev.total
EstSysDelta == est.stats.system - est.prev.system

\* equality of rationals that need not be in lowest terms
REq(p, q) == p.n * q.d = q.n * p.d

\* C1: for every pair of samples with cpuDelta > 0 and sysDelta > 0,
\* calculateCpuPercent returns min(100, max(0, cpuDelta / sysDelta * 100)),
\* which lies in [0, 100]; totals 1000 -> 1500 over system 10000 -> 15000
\* give exactly 10.
C1_ClampedRatio ==
  /\ (EstHasPair /\ EstCpuKnown /\ EstSysKnown
        /\ EstCpuDelta > 0 /\ EstSysDelta > 0)
       => /\ est.out # Thrown
          /\ REq(est.out,
                 RMin(Int2R(100),
                      RMax(RZero, [n |-> EstCpuDelta * 100, d |-> EstSysDelta])))
          /\ ~RLess(est.out, RZero)
          /\ ~RLess(Int2R(100), est.out)
  /\ (/\ EstHasPair
      /\ est.prev.total = 1000 /\ est.stats.total = 1500
      /\ est.prev.system = 10000 /\ est.stats.system = 15000)
       => est.out = Int2R(10)

C1_Witness ==
  /\ EstHasPair
  /\ est.prev.total = 1000 /\ est.stats.total = 15000
  /\ est.prev.system = 10000 /\ est.stats.system = 15000
  /\ est.out = Int2R(100)

\* C2: calculateCpuPercent returns exactly 0 when there is no previous
\* sample, when sysDelta <= 0 and when cpuDelta <= 0, whatever the other
\* inputs are.
C2_ZeroCases ==
  (/\ est.out # NoEst
   /\ \/ est.prev = NoSample
      \/ EstHasPair /\ EstSysKnown /\ EstSysDelta <= 0
      \/ EstHasPair /\ EstCpuKnown /\ EstCpuDelta <= 0)
    => est.out = RZero

C2_Witness ==
  /\ EstHasPair /\ EstCpuKnown /\ EstSysKnown
  /\ EstSysDelta <= 0 /\ EstCpuDelta > 0
  /\ est.out = RZero

\* ----------------------------------------------------- the snapshot cache
\* the activations whose getDockerStatsCached is waiting for getDockerStats
InFlight == {k \in calls : k.pc \in {"list", "stats"}}

\* C3: for calls of getDockerStatsCached that do not overlap, a call made less
\* than 2000 ms after the timestamp of the last refresh returns the stored
\* snapshot itself and asks the platform nothing; a call made 2000 ms or more
\* after it issues exactly one docker.listContainers, and the pass it starts
\* stores its result and the timestamp of the call when it resolves.
C3_Call ==
  (nextSeq' = nextSeq + 1 /\ InFlight = {} /\ lastStats # NoStats) =>
    LET k == CHOOSE x \in calls' : x.seq = nextSeq'
    IN  /\ k.t0 = now
        /\ (now - lastStatsTime < 2000) =>
             /\ k.pc = "ready" /\ k.snap = lastStats
             /\ listCalls' = listCalls
             /\ lastStats' = lastStats /\ lastStatsTime' = lastStatsTime
        /\ (now - lastStatsTime >= 2000) =>
             /\ k.pc = "list" /\ listCalls' = listCalls + 1

C3_Store ==
  \A k \in calls : \A k1 \in calls' :
    (k1.seq = k.seq /\ InFlight = {k} /\ k1.pc = "ready") =>
      /\ lastStats' = k1.snap
      /\ k1.snap.pass = k.seq
      /\ lastStatsTime' = k.t0
      /\ listCalls' = listCalls

C3_TtlCache == [][C3_Call /\ C3_Store]_vars

C3_Witness ==
  \E h \in calls : \E f \in calls :
    /\ h.pc = "ready" /\ h.snap = lastStats /\ h.snap.pass # h.seq
    /\ f.pc = "list" /\ InFlight = {f}
    /\ f.t0 - lastStatsTime >= 2000

C5_PushCadence ==
  \A c \in Conns :
    conn[c].state = "open" =>
      LET elapsed == now - conn[c].openedAt
          due == 1 + (elapsed \div 2000)
      IN  /\ conn[c].started >= 1
          /\ conn[c].started <= due
          /\ conn[c].started >= (IF elapsed % 2000 = 0 THEN due - 1 ELSE due)

\* What both servers do: the same cadence with the interval of the release.
C5_CadenceOfRelease ==
  \A c \in Conns :
    conn[c].state = "open" =>
      LET elapsed == now - conn[c].openedAt
          due == 1 + (elapsed \div PushInterval)
      IN  /\ conn[c].started >= 1
          /\ conn[c].started <= due
          /\ conn[c].started >=
               (IF elapsed % PushInterval = 0 THEN due - 1 ELSE due)

C5_Witness ==
  \E c \in Conns :
    /\ conn[c].state = "open"
    /\ now = conn[c].openedAt + 2000
    /\ conn[c].started = 2

\* the pushes of connection c that have written nothing yet
Unwritten(c) == {k \in calls : k.conn = c /\ k.pc # "orphan"}

\* C6: a push that fails writes exactly one error message; the connection
\* stays open and its timer keeps running, so later ticks still push.  Every
\* push started on a connection ends in exactly one message.
C6_OneMessagePerPush ==
  \A c \in Conns :
    conn[c].started =
      conn[c].sent + conn[c].errs + conn[c].late + Cardinality(Unwritten(c))

C6_Reject ==
  \A k \in calls :
    (/\ k.pc \in {"list", "stats"}
     /\ conn[k.conn].state = "open"
     /\ \A k1 \in calls' : k1.seq = k.seq => k1.pc = "orphan") =>
      conn' = [conn EXCEPT ![k.conn].errs = @ + 1]

C6_ErrorKeepsConnection ==
  C6_OneMessagePerPush /\ [][C6_Reject /\ C6_OneMessagePerPush']_vars

C6_Witness ==
  \E c \in Conns :
    /\ conn[c].state = "open" /\ conn[c].timerDue > now
    /\ conn[c].errs = 1 /\ conn[c].sent = 1 /\ conn[c].started = 2

\* C7: when a connection closes, its timer is cleared and nothing else of the
\* stream or of the snapshot cache changes: every other connection keeps its
\* timer and its cadence, lastStats and lastStatsTime stay as they are.
C7_Step ==
  \A c \in Conns :
    (conn[c].state = "open" /\ conn'[c].state = "closed") =>
      /\ conn'[c].timerDue = NoTimer
      /\ \A d \in Conns \ {c} : conn'[d] = conn[d]
      /\ lastStats' = lastStats
      /\ lastStatsTime' = lastStatsTime

C7_CloseFrame == [][C7_Step]_vars

C7_Witness ==
  \E c \in Conns : \E d \in Conns :
    /\ conn[c].state = "closed"
    /\ conn[d].state = "open" /\ conn[d].timerDue # NoTimer
    /\ lastStats # NoStats

\* C8: once the close handler of any connection has run, and until a sample
\* is stored again, cpuStats holds no sample at all, whatever connections
\* are still open.
C8_PurgeAll == \A i \in Ids : purged[i] => cpuStats[i] = NoSample

C8_Witness ==
  \E c \in Conns : \E d \in Conns : \E i \in Ids :
    /\ conn[c].state = "closed" /\ conn[d].state = "open"
    /\ purged[i] /\ cpuStats[i] = NoSample
    /\ lastStats # NoStats /\ i \in DOMAIN lastStats.ents
    /\ lastStats.ents[i].ramLimit > 0

\* ------------------------------------------------- the purge and the reader
\* the connections that opened after some connection had closed, and have
\* been sent a snapshot
Reconnected == {c \in Conns : conn[c].afterClose /\ conn[c].first # NoStats}

\* C9 as stated: the first snapshot pushed to a client that connects after a
\* disconnect reports cpu = 0 for every entity.
C9_FirstAllZero == \A c \in Reconnected : conn[c].first.allZero

\* C9 as amended: in the first snapshot pushed to a client that connects after
\* a disconnect, cpu = 0 for every entity of which the push's own sampling
\* pass took the first sample since the purge.
C9_FirstFreshZero == \A c \in Reconnected : conn[c].first.freshZero

C9_Witness ==
  \E c \in Reconnected : conn[c].first.hasFresh /\ conn[c].first.freshZero

\* ------------------------------------------------------------- the sampler
\* the sampling passes that have got their listing
Listing(k) == DOMAIN k.listing = Ids

\* C10: in a sampling pass, an entity whose stats fetch fails is reported
\* with cpu = 0, ramUsage = 0, ramLimit = 0 and its retained sample is
\* deleted; every listed entity has its element, the entities sampled
\* successfully carry the memory figures of their own sample, and the pass is
\* not rejected because of the failure (only a listing entry the mapper
\* cannot read rejects it).
C10_Reported ==
  \A k \in calls :
    Listing(k) =>
      /\ DOMAIN k.res = Listed(k.listing)
      /\ \A i \in DOMAIN k.res :
           /\ k.res[i].src = "failed" =>
                /\ Up(k.listing[i])
                /\ k.res[i].cpu = RZero
                /\ k.res[i].ramUsage = 0 /\ k.res[i].ramLimit = 0
           /\ k.res[i].src = "ok" =>
                /\ Up(k.listing[i])
                /\ k.res[i].ramUsage * MIB >= SampleOf(k.res[i].k).usage - MIB \div 2
                /\ k.res[i].ramUsage * MIB <= SampleOf(k.res[i].k).usage + MIB \div 2
                /\ k.res[i].ramLimit > 0
                /\ ~RLess(k.res[i].cpu, RZero)
                /\ ~RLess(Int2R(100), k.res[i].cpu)
      /\ k.pc = "orphan" => \E i \in Ids : k.listing[i] = "bad"
      /\ k.pc = "ready" =>
           /\ DOMAIN k.snap.ents = Listed(k.listing)
           /\ \A i \in DOMAIN k.res :
                /\ k.snap.ents[i].cpu = k.res[i].cpu
                /\ k.snap.ents[i].ramUsage = k.res[i].ramUsage
                /\ k.snap.ents[i].ramLimit = k.res[i].ramLimit

C10_Delete ==
  \A k \in calls : \A k1 \in calls' : \A i \in Ids :
    (/\ k1.seq = k.seq /\ i \in k.pending /\ i \notin k1.pending
     /\ k1.res[i].src = "failed") =>
      cpuStats'[i] = NoSample

C10_FailureIsolated == [][C10_Delete /\ C10_Reported']_vars

C10_Witness ==
  \E k \in calls : \E i \in Ids : \E j \in Ids :
    /\ Listing(k) /\ k.pc = "ready" /\ k.snap = lastStats
    /\ i \in DOMAIN k.res /\ j \in DOMAIN k.res
    /\ k.res[i].src = "failed" /\ cpuStats[i] = NoSample
    /\ k.res[j].src = "ok" /\ k.res[j].ramUsage > 0
    /\ k.snap.ents[j].ramUsage = k.res[j].ramUsage

\* C11: when docker.listContainers fails, the pass resolves to the empty
\* entity list without throwing: nothing is written by the failure, no
\* connection changes, and the empty list is stored with the time at which
\* the call started, as any result is.  The failure adds no delay: a call of
\* getDockerStatsCached made 2000 ms or more after the failed call started,
\* with the empty list still stored, issues docker.listContainers again.
C11_EmptyNoThrow ==
  \A k \in calls : \A k1 \in calls' :
    (k1.seq = k.seq /\ k.pc = "list" /\ k1.pc # "list" /\ ~Listing(k1)) =>
      /\ k1.pc = "ready"
      /\ k1.snap.ents = <<>>
      /\ conn' = conn
      /\ lastStats' = k1.snap
      /\ lastStatsTime' = k.t0

C11_Retry ==
  \A f \in calls' \ calls :
    (/\ nextSeq' = nextSeq + 1 /\ f.seq = nextSeq'
     /\ lastStats # NoStats /\ lastStats.ents = <<>>
     /\ f.t0 - lastStatsTime >= 2000) =>
      /\ f.pc = "list"
      /\ listCalls' = listCalls + 1

GotListing(k, k1) == k1.seq = k.seq /\ k.pc = "list" /\ Listing(k1)

\* entity i of the listing of pass k1 is skipped: no stats request is issued
\* for it and its element is cpu = 0, ramUsage = 0, ramLimit = 0
Skipped(k1, i) ==
  /\ i \notin k1.pending
  /\ k1.res[i].src = "stopped"
  /\ k1.res[i].cpu = RZero /\ k1.res[i].ramUsage = 0 /\ k1.res[i].ramLimit = 0

\* C12 as stated: for every listed entity whose State is not "running" the
\* pass issues no stats request, reports zeros and deletes the retained
\* sample of its id.
C12_Stated ==
  \A k \in calls : \A k1 \in calls' : \A i \in Ids :
    (GotListing(k, k1) /\ k1.listing[i] \notin {"absent", "running"}) =>
      Skipped(k1, i) /\ cpuStats'[i] = NoSample

C12_Amended ==
  \A k \in calls : \A k1 \in calls' : \A i \in Ids :
    (GotListing(k, k1) /\ k1.listing[i] # "absent" /\ ~Up(k1.listing[i])) =>
      Skipped(k1, i) /\ cpuStats'[i] = NoSample

C12_StaysSkipped ==
  \A k \in calls : \A i \in Ids :
    (Listing(k) /\ k.listing[i] # "absent" /\ ~Up(k.listing[i])) =>
      /\ Skipped(k, i)
      /\ k.pc = "ready" =>
           /\ k.snap.ents[i].cpu = RZero
           /\ k.snap.ents[i].ramUsage = 0 /\ k.snap.ents[i].ramLimit = 0

Completed(k, k1) ==
  /\ k1.seq = k.seq /\ k.pc \in {"list", "stats"}
  /\ k1.pc = "ready" /\ k1.snap.pass = k1.seq /\ Listing(k1)

\* C13: when a sampling pass completes, every id that has a retained sample
\* in cpuStats is the id of an entity the pass listed as running and sampled
\* successfully: the samples of entities that stopped, failed or are no
\* longer listed have been evicted.
C13_Step ==
  \A k \in calls : \A k1 \in calls' : \A i \in Ids :
    (Completed(k, k1) /\ cpuStats'[i] # NoSample) =>
      /\ i \in DOMAIN k1.res
      /\ k1.res[i].src = "ok"

C13_RetainedAreSampled == [][C13_Step]_vars

\* C14: the pass that finds a container stopped reports cpu = 0 and ram = 0
\* for it; and when the container runs again under the same id, no estimate
\* is computed against a sample from before the restart: a stats request
\* issued after a pass found the id stopped never meets a retained sample
\* that was requested before that.
C14_StoppedIsZero ==
  \A k \in calls : \A k1 \in calls' : \A i \in Ids :
    (GotListing(k, k1) /\ Stopped(k1.listing[i])) => Skipped(k1, i)

C14_NoSampleAcrossRestart ==
  \A k \in calls : \A k1 \in calls' : \A i \in Ids :
    (/\ k1.seq = k.seq /\ i \in k.pending /\ i \notin k1.pending
     /\ k1.res[i].src = "ok" /\ i \notin k.old) =>
      (cpuStats[i] = NoSample \/ ~stale[i])

C14_RestartStartsAfresh ==
  [][C14_StoppedIsZero /\ C14_NoSampleAcrossRestart]_vars

\* ---------------------------------------------------------------- the charts
\* the series that exist: <<key, type>>
Series == {k \in Keys \X Types : historyData[k[1]] # NoHistory}

\* the last n elements of sequence q
LastN(q, n) == SubSeq(q, Len(q) - n + 1, Len(q))

\* C15: every history series has at most 60 values, and holds the last
\* values pushed to it, in the order in which they were pushed: a full
\* series drops its oldest value, so after 61 values the last 60 are left.
C15_Capacity ==
  \A k \in Series :
    LET arr == historyData[k[1]][k[2]]
        all == appended[k[1]][k[2]]
    IN  /\ Len(arr) <= 60
        /\ Len(arr) = (IF Len(all) < 60 THEN Len(all) ELSE 60)
        /\ arr = LastN(all, Len(arr))

C15_Witness ==
  \E k \in Series :
    LET arr == historyData[k[1]][k[2]]
    IN  /\ Len(appended[k[1]][k[2]]) = 61
        /\ Len(arr) = 60
        /\ \A n \in 1..60 : arr[n] = Num(n + 1)

\* C16: every value stored in a history series is a number in [0,100],
\* whatever the snapshot carried: a negative value, a value above 100 or no
\* value.
C16_InRange ==
  \A k \in Series :
    LET arr == historyData[k[1]][k[2]]
    IN  \A n \in 1..Len(arr) :
          ~arr[n].nan /\ arr[n].v >= 0 /\ arr[n].v <= 100

\* a snapshot with 150 has been rendered and 100 is what the series got,
\* next to a series that got 0 for a negative or a missing value
C16_Witness ==
  \E i \in Ids : \E j \in Ids :
    /\ lastRenderedData # NoData /\ ~lastRenderedData.error
    /\ i \in DOMAIN lastRenderedData.containers
    /\ lastRenderedData.containers[i].cpu = Num(150)
    /\ historyData[i] # NoHistory /\ historyData[j] # NoHistory
    /\ historyData[i].cpu[Len(historyData[i].cpu)] = Num(100)
    /\ historyData[i].ram[Len(historyData[i].ram)] = Num(100)
    /\ historyData[j].ram[1] = Num(0)
    /\ appended[j].ram[1] = Num(0)

\* C17: after a render, which ends with cleanUpCharts(activeIds), no history
\* series and no chart is left for a container id that is not in the
\* snapshot; after an {error} snapshot none is left at all.
C17_InactiveRemoved ==
  lastRenderedData # NoData =>
    \A i \in Ids :
      i \notin DOMAIN lastRenderedData.containers =>
        /\ historyData[i] = NoHistory
        /\ \A t \in Types : <<i, t>> \notin charts

\* C18: the 'host' series and the host charts are permanent: no render, with
\* whatever set of active ids, and no {error} snapshot removes the history
\* of 'host' or a host chart, and the values of the host series stay.
C18_Step ==
  /\ historyData[HostKey] # NoHistory =>
       /\ historyData'[HostKey] # NoHistory
       /\ \A t \in Types :
            Len(appended'[HostKey][t]) >= Len(appended[HostKey][t])
  /\ \A t \in Types : <<HostKey, t>> \in charts => <<HostKey, t>> \in charts'

C18_HostPermanent == [][C18_Step]_vars

\* an {error} snapshot has been rendered, the cards are gone, and the host
\* series and charts are still there
C18_Witness ==
  /\ lastRenderedData = ErrorData
  /\ historyData[HostKey] # NoHistory
  /\ Len(historyData[HostKey].cpu) > 0
  /\ <<HostKey, "cpu">> \in charts /\ <<HostKey, "ram">> \in charts
  /\ \A i \in Ids : historyData[i] = NoHistory

\* ---------------------------------------------------------------- the stream
\* the delay of the n-th reconnect scheduled in a row: 1000, 2000, 4000,
\* 8000, 16000, then 30000
C19_Delay(n) == IF n >= 6 THEN 30000 ELSE 1000 * 2^(n - 1)

\* C19: the reconnects scheduled since the last message (or since the page
\* was loaded) were given the delays 1000, 2000, 4000, ... capped at 30000,
\* and when none is pending the delay the next one will be given is the next
\* of that sequence: 1000 when a message has just been received.
C19_Backoff ==
  /\ \A n \in 1..Len(sseDelays) : sseDelays[n] = C19_Delay(n)
  /\ sseReconnectTimer = NoReconnect =>
       sseReconnectDelay = C19_Delay(Len(sseDelays) + 1)

\* seven reconnects in a row after a message, the last two at the cap
C19_Witness ==
  /\ feed.left < MaxProbes
  /\ lastRenderedData # NoData
  /\ sseDelays = <<1000, 2000, 4000, 8000, 16000, 30000, 30000>>
  /\ timers # {}

\* C20: at most one reconnect timeout is pending, and it is the one
\* sseReconnectTimer names; an error event that arrives while a reconnect is
\* scheduled leaves the pending timeout, sseReconnectTimer and the delay as
\* they are.
C20_Step ==
  /\ Cardinality(timers') <= 1
  /\ \A t \in timers' : t.id = sseReconnectTimer'
  /\ (sseErrors' = sseErrors + 1 /\ timers # {}) =>
       UNCHANGED <<timers, sseReconnectTimer, sseReconnectDelay, sseDelays>>

C20_OneReconnectTimer == [][C20_Step]_vars

\* a second error event has arrived while the reconnect is scheduled
C20_Witness ==
  /\ sseErrors = 2
  /\ Len(sseDelays) = 1
  /\ Cardinality(timers) = 1
  /\ \E t \in timers : t.id = sseReconnectTimer /\ t.delay = 1000

\* --------------------------------------------------------------- lifecycle
\* the step is the handling of a message of the stream
MessageStep == delivered' = delivered + 1

\* C21: the handling of a message renders it, resets the delay to 1000 and
\* leaves no reconnect pending, whether the storage took the text of the
\* message or refused it; the stored text is then that of the message or
\* the one that was there, and no other step writes to the storage (the
\* write is not tried again).
C21_Step ==
  /\ MessageStep =>
       /\ rendered' = Append(rendered, [n |-> delivered', cache |-> FALSE])
       /\ sseReconnectDelay' = 1000
       /\ sseReconnectTimer' = NoReconnect
       /\ timers' = {}
       /\ stored' = Text(lastRenderedData') \/ stored' = stored
  /\ ~MessageStep => stored' = stored

C21_MessageHandled == [][C21_Step]_vars

\* a message has been handled whose text the storage refused, after a
\* message that it took: the delay is 1000 and nothing is pending
C21_Witness ==
  /\ delivered = 2
  /\ Len(rendered) > 0 /\ LastNo = 2
  /\ Parsable(stored)
  /\ stored # Text(lastRenderedData)
  /\ sseReconnectDelay = 1000
  /\ sseReconnectTimer = NoReconnect
  /\ timers = {}

\* the step is the callback of a reconnect timeout
ReconnectStep == signal' # signal /\ signal'.name = "timer"

\* C22: while the page is hidden it has no stream, open or being opened:
\* the step that hides the page closes the stream, and no step taken while
\* the page stays hidden, the callback of a reconnect timeout included,
\* opens one.
C22_Step ==
  /\ (~hidden /\ hidden') => ~Streaming'
  /\ (hidden /\ hidden' /\ ReconnectStep) => ~Streaming'

C22_NoStreamWhileHidden == [][C22_Step]_vars

\* the step is the handling of the event `name`
Handles(name) == signal' # signal /\ signal'.name = name

\* what the page holds of its connection
connState == <<eventSource, sourceId, openSources, timers,
               sseReconnectTimer, sseReconnectDelay>>

\* C23: a 'visibilitychange' to visible or a 'focus' opens a stream when the
\* page has none that is open or connecting, and otherwise leaves the
\* connection as it is: same stream, same state.  A 'visibilitychange' to
\* hidden that follows another one changes nothing, and one that finds the
\* page hidden without a stream leaves the connection as it is.
C23_Step ==
  /\ (Handles("show") \/ Handles("focus")) =>
       IF Streaming THEN UNCHANGED connState
       ELSE /\ eventSource' = "connecting"
            /\ sourceId' # sourceId
            /\ openSources' = 1
            /\ UNCHANGED <<timers, sseReconnectTimer, sseReconnectDelay>>
  /\ (Handles("hide") /\ signal.name = "hide") =>
       UNCHANGED <<chartVars, logVars, connState, hidden, visibleWaiting,
                   focusListener, sseDelays, sseErrors>>
  /\ (Handles("hide") /\ hidden /\ ~Streaming) => UNCHANGED connState

C23_VisibilityIdempotent == [][C23_Step]_vars

\* a 'focus' has come while the stream was open, and left it open: the page
\* was hidden, shown again, reconnected and has received a message since
C23_Witness ==
  /\ signal.name = "focus"
  /\ eventSource = "open"
  /\ ~hidden /\ ~focusListener
  /\ delivered > 0

\* C24: as the page loads, the persisted snapshot is rendered first, marked
\* as from cache, while the page has no stream yet, and the stream is opened
\* next; when the key is missing or its text is not JSON, nothing is
\* rendered and the stream is opened all the same.
C24_Step ==
  /\ (feed.stage = "boot" /\ feed'.stage # "boot") =>
       /\ feed'.stage = "restored"
       /\ eventSource' = "none"
       /\ IF Parsable(stored)
            THEN /\ rendered' = <<[n |-> 0, cache |-> TRUE]>>
                 /\ lastRenderedData' = Parse(stored)
          ELSE /\ rendered' = <<>>
               /\ lastRenderedData' = NoData
               /\ cards' = {}
               /\ \A i \in Ids : historyData'[i] = NoHistory
  /\ (feed.stage = "restored" /\ feed'.stage # "restored") =>
       /\ feed'.stage = "live"
       /\ eventSource' = "connecting"
       /\ UNCHANGED <<rendered, lastRenderedData, cards>>

C24_RestoreThenConnect == [][C24_Step]_vars

\* the page has rendered the persisted snapshot and has opened its stream,
\* which has delivered nothing yet
C24_Witness ==
  /\ feed.stage = "live"
  /\ rendered = <<[n |-> 0, cache |-> TRUE]>>
  /\ lastRenderedData = Parse(stored)
  /\ lastRenderedData # ErrorData
  /\ cards # {}
  /\ eventSource = "connecting"
  /\ delivered = 0

\* the numbers of the messages of the stream that were rendered, in the
\* order of the calls of renderAllData
FromStream(e) == e.n > 0
RenderedNos == [k \in 1..Len(SelectSeq(rendered, FromStream)) |->
                  SelectSeq(rendered, FromStream)[k].n]

\* C25: the messages of the stream are rendered in the order in which they
\* were delivered, each of them once: the rendered messages are the
\* messages 1, 2, ..., delivered.
C25_RenderedAsDelivered == RenderedNos = [k \in 1..delivered |-> k]

\* the set of active ids of a snapshot that has been rendered
ActiveIds(data) == DOMAIN data.containers

\* C26: the history of a container is destroyed only by the render of a
\* snapshot that does not list the container when the snapshot rendered
\* before it did not list it either: one snapshot without the container
\* leaves its series as it was.
C26_Step ==
  \A i \in Ids :
    (historyData[i] # NoHistory /\ historyData'[i] = NoHistory) =>
      /\ lastRenderedData # NoData
      /\ i \notin ActiveIds(lastRenderedData)
      /\ i \notin ActiveIds(lastRenderedData')

C26_TwoAbsences == [][C26_Step]_vars

\* C27: the series of a container that a render has just created hold
\* several copies of the first value observed, not a single point.
C27_Step ==
  \A i \in Ids :
    (historyData[i] = NoHistory /\ historyData'[i] # NoHistory) =>
      \A t \in Types :
        LET arr == historyData'[i][t]
        IN  /\ Len(arr) > 1
            /\ \A n \in 1..Len(arr) : arr[n] = arr[1]

C27_NewSeriesSeeded == [][C27_Step]_vars

\* ------------------------------------------------------------- the server
\* C28: the host is sampled by the passes that refresh the cache and by no
\* other: an activation of sendData that is served the cached snapshot calls
\* getHostStats no more than it calls docker.listContainers, so that the
\* pushes of one TTL window carry one host reading.
C28_Step ==
  nextSeq' = nextSeq + 1 =>
    (hostCalls' = hostCalls + 1 <=> listCalls' = listCalls + 1)

C28_HostSampledWithRefresh == [][C28_Step]_vars

\* the connections that have a live interval timer
LiveTimers == {c \in Conns : conn[c].timerDue # NoTimer}

\* the connections that are open
OpenConns == {c \in Conns : conn[c].state = "open"}

\* C29: the connections that have a live interval timer are the open
\* connections, each with its own: as many timers as open connections, and
\* none for a connection that is closed or was never opened.
C29_TimerPerConnection ==
  /\ LiveTimers = OpenConns
  /\ Cardinality(LiveTimers) = Cardinality(OpenConns)
  /\ \A c \in Conns : conn[c].state = "closed" => conn[c].timerDue = NoTimer

\* one connection has been closed after its timer had fired, and another is
\* open with its own timer running
C29_Witness ==
  \E c \in Conns : \E d \in Conns :
    /\ conn[c].state = "closed" /\ conn[c].started > 1
    /\ conn[c].timerDue = NoTimer
    /\ conn[d].state = "open" /\ conn[d].timerDue > now

\* ---------------------------------------------------------------- pageshow
\* C30: a 'pageshow' with the persisted flag leaves the page with a new
\* stream that is connecting, whatever it had, and with that stream only:
\* the one it had is closed; the reconnect timeout and the delay are not
\* touched.  A 'pageshow' without the flag changes nothing.
C30_Step ==
  /\ Handles("pageshow") =>
       /\ eventSource' = "connecting"
       /\ sourceId' # sourceId
       /\ openSources' = 1
       /\ UNCHANGED <<timers, sseReconnectTimer, sseReconnectDelay>>
  /\ Handles("pageshow, not persisted") =>
       UNCHANGED <<chartVars, logVars, connState, hidden, visibleWaiting,
                   focusListener, sseDelays, sseErrors>>

C30_PageShowReconnects == [][C30_Step]_vars

\* a 'pageshow' with the flag has replaced a stream that was open and had
\* delivered messages
C30_Witness ==
  /\ signal.name = "pageshow"
  /\ eventSource = "connecting"
  /\ openSources = 1
  /\ delivered > 0
  /\ sseErrors = 0
  /\ ~hidden /\ ~visibleWaiting

\* ------------------------------------------------------------ the backoff
\* C31: in every state of the page, whatever messages, errors, timeouts,
\* visibility changes and 'pageshow' events it has handled in whatever
\* order, sseReconnectDelay is at least 1000 and at most 30000.
C31_DelayInRange ==
  /\ sseReconnectDelay >= 1000
  /\ sseReconnectDelay <= 30000

\* the sixth reconnect in a row has fired: the delay was at the ceiling and
\* has stayed there
C31_Witness ==
  /\ sseReconnectDelay = 30000
  /\ Len(sseDelays) = 6
  /\ sseDelays[6] = 30000
  /\ timers = {}
  /\ signal.name = "timer"

\* ------------------------------------------------------------- the storage
\* C32: once the storage has taken the text of a message, the key holds the
\* text of the last message whose text it took, whatever messages it refused
\* since; and the next load of the page renders the snapshot of that
\* message, marked as from cache, before anything else: its containers are
\* the cards of the page.
C32_Held == saved # NoData => stored = Text(saved)

C32_Step ==
  (feed.stage = "boot" /\ feed'.stage # "boot" /\ saved # NoData) =>
    /\ rendered' = <<[n |-> 0, cache |-> TRUE]>>
    /\ lastRenderedData' = saved
    /\ cards' = ActiveIds(saved)
    /\ UNCHANGED <<stored, saved>>

C32_RoundTrip == C32_Held /\ [][C32_Step /\ C32_Held']_vars

\* the page has been loaded again and has rendered the snapshot, with a
\* container, of the last message of the page before whose text was stored
C32_Witness ==
  /\ feed.stage = "restored"
  /\ feed.left = 0
  /\ saved # NoData /\ ~saved.error
  /\ stored = Text(saved)
  /\ lastRenderedData = saved
  /\ cards = ActiveIds(saved) /\ cards # {}
  /\ rendered = <<[n |-> 0, cache |-> TRUE]>>

\* ------------------------------------------------------- the host sampler
\* C33: when the read of the host CPU usage fails, getHostStats still
\* resolves, to a snapshot whose cpuUsage is 0 and whose other fields are
\* what the host answered: total memory in MiB, memory usage percent, core
\* count, load averages and a hostname; and the push carries that snapshot,
\* not {error}, when the container list was obtained.
C33_CpuReadFailure ==
  (est.in # NoHost /\ est.in.read = ReadFailed) =>
    /\ est.out # Thrown
    /\ est.out.cpuUsage = Num(0)
    /\ est.out.totalMemory * MIB = est.in.totalMem
    /\ REq(est.out.memoryUsagePercent,
           [n |-> (est.in.totalMem - est.in.freeMem) * 100,
            d |-> est.in.totalMem])
    /\ est.out.cpuCores = est.in.cpus
    /\ est.out.loadAverage = est.in.loadavg
    /\ est.out.hostname \in {OS_HOSTNAME, DOCKER_NAME}
    /\ est.out.hostname = est.cachedHostname
    /\ est.containers = "list" =>
         est.push = [containers |-> "list", host |-> est.out]

\* the second call of getHostStats met a failing read, with memory in use
\* and the hostname of docker.info() cached by the first call, which failed
\* to get now
C33_Witness ==
  /\ hostCalls = 2
  /\ est.in.read = ReadFailed
  /\ est.in.info = "failed"
  /\ est.in.freeMem = MIB
  /\ est.containers = "list"
  /\ est.out.cpuUsage = Num(0)
  /\ est.out.hostname = DOCKER_NAME
  /\ est.push.host = est.out

\* ------------------------------------------------------- writes after close
\* C34: once the close handler of a connection has run, res.write is not
\* called on that connection again: an activation of sendData that was
\* waiting for its snapshot when the connection closed writes nothing.
C34_NoWriteAfterClose == \A c \in Conns : conn[c].late = 0

\* ------------------------------------------------ overlapping refreshes
\* C35: lastStatsTime never decreases, and a snapshot that is stored
\* replaces the snapshot of a pass that started before its own: the stored
\* snapshot is never that of an older pass that completed later.
C35_Step ==
  /\ lastStatsTime' >= lastStatsTime
  /\ (lastStats # NoStats /\ lastStats' # lastStats) =>
       lastStats'.pass > lastStats.pass

C35_RefreshesOrdered == [][C35_Step]_vars

\* ---------------------------------------------------- the order of samples
\* C36: the retained sample of an id is replaced by the sample of a later
\* request only: the step that stores a sample in cpuStats[id], which is the
\* step that estimates the CPU from the sample held as `prev` and the new one
\* as `current`, never finds there a sample of a request issued after the
\* request of the new one.
C36_Step ==
  \A i \in Ids :
    (/\ order.held[i] # 0 /\ order'.held[i] # 0
     /\ order'.held[i] # order.held[i]) =>
      order'.held[i] > order.held[i]

C36_SamplesInOrder == [][C36_Step]_vars

\* ------------------------------------------------------ the reconnect timer
\* C37: the callback of a reconnect timeout runs only when the page has no
\* stream that is open or connecting; so it never closes and replaces a
\* stream, and in particular not one that a 'visibilitychange', a 'focus'
\* or a 'pageshow' has opened since the timeout was scheduled.
C37_Step == ReconnectStep => ~Streaming

C37_TimerFindsNoStream == [][C37_Step]_vars

\* ------------------------------------------------------------- one stream
\* C38: at any time at most one EventSource of the page is not closed, and
\* it is the one `eventSource` refers to: whatever opens a stream (the load
\* of the page, a reconnect timeout, a 'visibilitychange', a 'focus', a
\* 'pageshow') has closed the one before.
C38_OneStream ==
  /\ openSources <= 1
  /\ openSources = 1 <=> Streaming

\* a reconnect timeout has fired after messages were delivered, and the
\* page has one stream, which is connecting
C38_Witness ==
  /\ signal.name = "timer"
  /\ eventSource = "connecting"
  /\ openSources = 1
  /\ delivered > 0
  /\ sseErrors > 0

\* ----------------------------------------------------------- reconnection
\* the page is loaded and visible, and has no stream open or connecting
Stranded == feed.stage = "live" /\ ~hidden /\ ~Streaming

\* C39: provided that timeouts fire: a page that is visible and without a
\* stream has a reconnect pending, and gets a stream; a reconnect that is
\* pending ends with the page having a stream (opened by the timeout, or the
\* one that has delivered a message); and the step that makes a hidden page
\* visible leaves it with a stream.
C39_Reconnects ==
  /\ [](Stranded => timers # {})
  /\ Stranded ~> Streaming
  /\ (timers # {}) ~> (timers = {} /\ Streaming)
  /\ [][(hidden /\ ~hidden') => Streaming']_vars

\* the page has been hidden and shown; the stream has then failed and the
\* timeout has opened a new one
C39_Witness ==
  /\ feed.stage = "live"
  /\ ~hidden /\ ~visibleWaiting /\ focusListener
  /\ sseErrors > 0
  /\ sseDelays = <<1000>>
  /\ sseReconnectDelay = 2000
  /\ timers = {}
  /\ eventSource = "connecting"

====
